---- MODULE Spec2Model ----
(***************************************************************************)
(* A model of the realtime session engine of audio-game (unmute):          *)
(*   - admission of websocket sessions      (unmute/main_websocket.py)     *)
(*   - the supervised task group of a route (unmute/main_websocket.py)     *)
(*   - receive_loop / emit_loop framing     (unmute/main_websocket.py)     *)
(*   - VLLMStream.chat_completion           (unmute/llm/llm_utils.py)      *)
(*   - execute_tool                         (unmute/llm/tool_executor.py)  *)
(*   - Chatbot and CharacterHistory         (unmute/llm/chatbot.py)        *)
(*   - _report_websocket_exception          (unmute/main_websocket.py)     *)
(*   - preprocess_messages_for_llm          (unmute/llm/llm_utils.py)      *)
(* Each part has its own variables and its own specification; a            *)
(* specification leaves the variables of the other parts unchanged.        *)
(***************************************************************************)
EXTENDS Integers, Sequences, FiniteSets, TLC

\* ------------------------------------------------------------------------
\* Bounds of the model
\* ------------------------------------------------------------------------

\* Number of concurrent websocket_route invocations in SpecAdmit.
NumClients == 5

\* Number of sessions running _run_route side by side in SpecRoute.
NumRoutes == 2

\* SpecFrames: inbound frames received, and polls of handler.emit().
MaxFrames == 3
MaxPolls == 1

\* SpecLLM: chunks of the first upstream stream and of the re-query stream,
\* and the largest tool-call index the upstream uses.
MaxChunks == 3
MaxFinalChunks == 1
MaxToolIndex == 1

\* SpecTool: execute_tool calls made one after the other.
MaxToolCalls == 2

\* SpecChat: operations made on one Chatbot, and the message cap used by
\* add_chat_message_delta (MAX_MESSAGES_PER_CHARACTER, 100 in chatbot.py:16,
\* scaled down so that truncation happens within MaxOps operations).
MaxOps == 5
MaxMessagesPerCharacter == 3

\* SpecHistoryFns: length of the histories and largest cap handed to
\* truncate_if_needed.
MaxHistLen == 4
MaxCap == 3

\* SpecPreprocess: messages of the history handed to
\* preprocess_messages_for_llm.
MaxPreLen == 4

\* SpecReport: exceptions in the ExceptionGroup handed to
\* _report_websocket_exception.
MaxGroup == 3

\* SpecLoad: .py files in a characters directory.  SpecReload: calls of
\* load_characters and reload_characters made on the managers.
MaxFiles == 3
MaxReloads == 3

\* ------------------------------------------------------------------------
\* Program constants
\* ------------------------------------------------------------------------

\* main_websocket.py:79
MAX_CLIENTS == 4

VARIABLES
    \* ---- admission (websocket_route) ----
    wsPc,             \* position of each websocket_route invocation
    SEMAPHORE,        \* value of asyncio.Semaphore(MAX_CLIENTS)
    ACTIVE_SESSIONS,  \* the gauge mt.ACTIVE_SESSIONS
    incCount,         \* per invocation: times ACTIVE_SESSIONS.inc() ran
    decCount,         \* per invocation: times ACTIVE_SESSIONS.dec() ran
    durCount,         \* per invocation: times SESSION_DURATION.observe() ran
    \* ---- the task group of _run_route ----
    rtPc,             \* position of each _run_route call
    task,             \* per session and task name: the task's status
    cleanupCount,     \* per session: times handler.cleanup() was called
    rtClosed,         \* per session: websocket.close() called by _run_route
    health,           \* per session: what get_health() answered
    \* ---- receive_loop / emit_loop of one session ----
    wsOpen,           \* the transport is connected
    recvPc,           \* receive_loop: "running", "closed", "failed", "cancelled"
    emitPc,           \* emit_loop: "top", "polling", "closed", "returned", "cancelled"
    frames,           \* the inbound frames validated so far, in arrival order
    emit_queue,       \* asyncio.Queue of server events
    sent,             \* events written to the transport, in order
    wait_for_first_opus,  \* receive_loop's local flag
    decoded,          \* numbers (positions in frames) of the frames fed to the decoder
    polls,            \* polls of handler.emit() so far
    \* ---- VLLMStream.chat_completion ----
    llmPc,            \* "start", "stream1", "exec", "awaiting_tool", "stream2",
                      \* "done", "raised"
    tools,            \* self.tools is a non-empty list
    prompt_generator, \* self.prompt_generator is set
    requests,         \* upstream requests issued (client.chat.completions.create)
    nChunks,          \* chunks received on the stream being read
    tool_calls_buffer,         \* index -> assembled tool call
    assistant_message_content, \* buffered content deltas of the first stream
    tool_calls_detected,
    yielded,          \* what the generator yielded to its caller, in order
    messages,         \* messages appended to the caller's list
    pendingCalls,     \* tool calls of the for loop not yet executed
    buffer_order,     \* the keys of tool_calls_buffer in insertion order
    arrived,          \* the argument fragments received, in arrival order
    started,          \* tool calls for which execute_tool was called, in order
    \* ---- execute_tool ----
    toolPc,           \* "idle", "awaiting" (in asyncio.wait_for), "done"
    toolArgs,         \* the arguments of the current call
    handlerInput,     \* tool_input as passed to handle_tool_call
    handlerInvoked,   \* the current call reached handle_tool_call
    toolOutcome,      \* how the current call ended
    CHARACTER_TOOL_ERRORS,  \* counter per error_type
    CHARACTER_TOOL_CALLS,   \* counter of successful invocations
    abandoned,        \* handler threads still running after their deadline
    toolCallsMade,
    \* ---- Chatbot ----
    character_histories,   \* name -> CharacterHistory
    current_character,     \* a name, or "None"
    chat_prompt_generator, \* self._prompt_generator is set
    lastCall,         \* the last operation made on the Chatbot, with its result
    opCount,          \* operations made so far; also the reading of get_time()
    \* ---- CharacterHistory.truncate_if_needed and conversation_state as functions ----
    fnPc,             \* "input", "truncated", "state"
    fnHistory,        \* the messages of the history handed in
    fnCurrent,        \* the Chatbot's current_character
    fnCap,            \* max_messages
    fnResult,         \* what the function left and returned
    \* ---- _report_websocket_exception ----
    rpPc,             \* "input", "done"
    rpExc,            \* the exception handed in: [group, exceptions]
    rpConnected,      \* the transport is connected when the report starts
    rpWire,           \* what the report put on the wire, in order
    \* ---- the end of a session: the task group, cleanup and the report ----
    sePc,             \* "tasks", "report", "closed"
    seOthers,         \* status of quest_manager.wait() and debug_running_tasks()
    seCleanup,        \* times handler.cleanup() was called
    \* ---- preprocess_messages_for_llm / Chatbot.preprocessed_messages ----
    ppPc,             \* "input", "done", "wrapped"
    ppHistory,        \* the history handed in
    ppOutput,         \* the list returned
    ppHistoryAfter,   \* the history handed in, as the call left it
    \* ---- CharacterManager.load_characters / reload_characters ----
    cmPc,             \* per manager: "idle", "gathering" (in asyncio.gather), "raised"
    cmCall,           \* per manager: the call in progress or last made
    characters,       \* per manager: self.characters
    loaded_characters, \* per manager: what _load_single_character returned, per file
    sys_modules,      \* the session-prefixed names in sys.modules
    load_result,      \* per manager: self._load_result
    cmOld,            \* per manager: self.characters when the call was made
    cmCalls           \* calls made so far

admitVars == <<wsPc, SEMAPHORE, ACTIVE_SESSIONS, incCount, decCount, durCount>>
routeVars == <<rtPc, task, cleanupCount, rtClosed, health>>
frameVars == <<wsOpen, recvPc, emitPc, frames, emit_queue, sent,
               wait_for_first_opus, decoded, polls>>

llmVars == <<llmPc, tools, prompt_generator, requests, nChunks, tool_calls_buffer,
             assistant_message_content, tool_calls_detected, yielded, messages,
             pendingCalls, buffer_order, arrived, started>>

toolVars == <<toolPc, toolArgs, handlerInput, handlerInvoked, toolOutcome,
              CHARACTER_TOOL_ERRORS, CHARACTER_TOOL_CALLS, abandoned, toolCallsMade>>

chatVars == <<character_histories, current_character, chat_prompt_generator,
              lastCall, opCount>>

fnVars == <<fnPc, fnHistory, fnCurrent, fnCap, fnResult>>

reportVars == <<rpPc, rpExc, rpConnected, rpWire>>

endVars == <<sePc, seOthers, seCleanup>>

ppVars == <<ppPc, ppHistory, ppOutput, ppHistoryAfter>>

cmVars == <<cmPc, cmCall, characters, loaded_characters, sys_modules, load_result,
            cmOld, cmCalls>>

vars == <<admitVars, routeVars, frameVars, llmVars, toolVars, chatVars, fnVars,
          reportVars, endVars, ppVars, cmVars>>

\* What each part leaves unchanged.
notAdmit == <<routeVars, frameVars, llmVars, toolVars, chatVars, fnVars,
    reportVars, endVars, ppVars, cmVars>>
notRoute == <<admitVars, frameVars, llmVars, toolVars, chatVars, fnVars,
    reportVars, endVars, ppVars, cmVars>>
notFrames == <<admitVars, routeVars, llmVars, toolVars, chatVars, fnVars,
    reportVars, endVars, ppVars, cmVars>>
notLlm == <<admitVars, routeVars, frameVars, toolVars, chatVars, fnVars,
    reportVars, endVars, ppVars, cmVars>>
notTool == <<admitVars, routeVars, frameVars, llmVars, chatVars, fnVars,
    reportVars, endVars, ppVars, cmVars>>
notChat == <<admitVars, routeVars, frameVars, llmVars, toolVars, fnVars,
    reportVars, endVars, ppVars, cmVars>>
notFn == <<admitVars, routeVars, frameVars, llmVars, toolVars, chatVars,
    reportVars, endVars, ppVars, cmVars>>
notReport == <<admitVars, routeVars, frameVars, llmVars, toolVars, chatVars, fnVars,
    endVars, ppVars, cmVars>>
notEnd == <<admitVars, routeVars, frameVars, llmVars, toolVars, chatVars, fnVars,
    reportVars, ppVars, cmVars>>
notReportEnd == <<admitVars, routeVars, frameVars, llmVars, toolVars, chatVars, fnVars,
    ppVars, cmVars>>
notPp == <<admitVars, routeVars, frameVars, llmVars, toolVars, chatVars, fnVars,
    reportVars, endVars, cmVars>>
notCm == <<admitVars, routeVars, frameVars, llmVars, toolVars, chatVars, fnVars,
    reportVars, endVars, ppVars>>

\* ========================================================================
\* States of the parts a specification does not exercise
\* ========================================================================

ChatIdle ==
    /\ character_histories = <<>>
    /\ current_character = "None"
    /\ chat_prompt_generator = FALSE
    /\ lastCall = <<>>
    /\ opCount = 0

ReportIdle ==
    /\ rpPc = "none"
    /\ rpExc = <<>>
    /\ rpConnected = FALSE
    /\ rpWire = <<>>

EndIdle ==
    /\ sePc = "none"
    /\ seOthers = <<>>
    /\ seCleanup = 0

PpIdle ==
    /\ ppPc = "none"
    /\ ppHistory = <<>>
    /\ ppOutput = <<>>
    /\ ppHistoryAfter = <<>>

CmIdle ==
    /\ cmPc = <<>>
    /\ cmCall = <<>>
    /\ characters = <<>>
    /\ loaded_characters = <<>>
    /\ sys_modules = {}
    /\ load_result = <<>>
    /\ cmOld = <<>>
    /\ cmCalls = 0

FnIdle ==
    /\ fnPc = "none"
    /\ fnHistory = <<>>
    /\ fnCurrent = "None"
    /\ fnCap = 0
    /\ fnResult = <<>>

RouteIdle ==
    /\ rtPc = <<>>
    /\ task = <<>>
    /\ cleanupCount = <<>>
    /\ rtClosed = <<>>
    /\ health = <<>>

ToolIdle ==
    /\ toolPc = "none"
    /\ toolArgs = <<>>
    /\ handlerInput = <<>>
    /\ handlerInvoked = FALSE
    /\ toolOutcome = <<>>
    /\ CHARACTER_TOOL_ERRORS = <<>>
    /\ CHARACTER_TOOL_CALLS = 0
    /\ abandoned = 0
    /\ toolCallsMade = 0

LlmIdle ==
    /\ llmPc = "none"
    /\ buffer_order = <<>>
    /\ arrived = <<>>
    /\ started = <<>>
    /\ tools = FALSE
    /\ prompt_generator = FALSE
    /\ requests = <<>>
    /\ nChunks = 0
    /\ tool_calls_buffer = <<>>
    /\ assistant_message_content = <<>>
    /\ tool_calls_detected = FALSE
    /\ yielded = <<>>
    /\ messages = <<>>
    /\ pendingCalls = <<>>

FramesIdle ==
    /\ wsOpen = FALSE
    /\ recvPc = "none"
    /\ emitPc = "none"
    /\ frames = <<>>
    /\ emit_queue = <<>>
    /\ sent = <<>>
    /\ wait_for_first_opus = TRUE
    /\ decoded = <<>>
    /\ polls = 0

AdmitIdle ==
    /\ wsPc = <<>>
    /\ SEMAPHORE = 0
    /\ ACTIVE_SESSIONS = 0
    /\ incCount = <<>>
    /\ decCount = <<>>
    /\ durCount = <<>>

\* ========================================================================
\* Admission: websocket_route
\* ========================================================================

Clients == 1..NumClients

\* Positions of one websocket_route invocation:
\*   "new"        not yet invoked
\*   "waiting"    suspended in `async with SEMAPHORE` (no slot)
\*   "accepting"  holds a slot, suspended in websocket.accept()
\*   "running"    accepted; inside handler.start_up() / _run_route()
\*   "reporting"  inside _report_websocket_exception()
\*   "closed"     the finally block ran and the slot was released
\*   "cancelled"  CancelledError left the coroutine while it was waiting
\*                for a slot (outside the try/finally)
WsPositions ==
    {"new", "waiting", "accepting", "running", "reporting", "closed", "cancelled"}

\* Invocations that hold a semaphore slot.
Holding == {c \in Clients : wsPc[c] \in {"accepting", "running", "reporting"}}

\* Invocations between a successful websocket.accept and the release of the slot.
Accepted == {c \in Clients : wsPc[c] \in {"running", "reporting"}}

AdmitStart ==
    /\ wsPc = [c \in Clients |-> "new"]
    /\ SEMAPHORE = MAX_CLIENTS
    /\ ACTIVE_SESSIONS = 0
    /\ incCount = [c \in Clients |-> 0]
    /\ decCount = [c \in Clients |-> 0]
    /\ durCount = [c \in Clients |-> 0]

SlotFree_Always == TRUE

\* asyncio.Semaphore.acquire() returns only while the value is positive.
SlotFree == SEMAPHORE > 0

\* websocket_route entry: the metrics are incremented, then the semaphore is
\* acquired at once if a slot is free; otherwise the coroutine suspends.
WsEnter(c) ==
    /\ wsPc[c] = "new"
    /\ ACTIVE_SESSIONS' = ACTIVE_SESSIONS + 1
    /\ incCount' = [incCount EXCEPT ![c] = @ + 1]
    /\ IF SlotFree
          THEN /\ SEMAPHORE' = SEMAPHORE - 1
               /\ wsPc' = [wsPc EXCEPT ![c] = "accepting"]
          ELSE /\ SEMAPHORE' = SEMAPHORE
               /\ wsPc' = [wsPc EXCEPT ![c] = "waiting"]
    /\ UNCHANGED <<decCount, durCount>>
    /\ UNCHANGED notAdmit

\* A waiter is granted a slot once one is free.
WsAcquire(c) ==
    /\ wsPc[c] = "waiting"
    /\ SlotFree
    /\ SEMAPHORE' = SEMAPHORE - 1
    /\ wsPc' = [wsPc EXCEPT ![c] = "accepting"]
    /\ UNCHANGED <<ACTIVE_SESSIONS, incCount, decCount, durCount>>
    /\ UNCHANGED notAdmit

\* The invocation is cancelled while suspended in SEMAPHORE.acquire(): the
\* CancelledError is raised before the try block is entered, so neither the
\* except clause nor the finally block runs.
WsCancelWaiting(c) ==
    /\ wsPc[c] = "waiting"
    /\ wsPc' = [wsPc EXCEPT ![c] = "cancelled"]
    /\ UNCHANGED <<SEMAPHORE, ACTIVE_SESSIONS, incCount, decCount, durCount>>
    /\ UNCHANGED notAdmit

\* The finally block of websocket_route followed by SEMAPHORE.__aexit__.
WsFinally(c) ==
    /\ ACTIVE_SESSIONS' = ACTIVE_SESSIONS - 1
    /\ decCount' = [decCount EXCEPT ![c] = @ + 1]
    /\ durCount' = [durCount EXCEPT ![c] = @ + 1]
    /\ SEMAPHORE' = SEMAPHORE + 1
    /\ wsPc' = [wsPc EXCEPT ![c] = "closed"]
    /\ UNCHANGED incCount
    /\ UNCHANGED notAdmit

\* websocket.accept() returns: the socket is registered, the handler is
\* created and started, and _run_route() is entered.
WsAcceptOk(c) ==
    /\ wsPc[c] = "accepting"
    /\ wsPc' = [wsPc EXCEPT ![c] = "running"]
    /\ UNCHANGED <<SEMAPHORE, ACTIVE_SESSIONS, incCount, decCount, durCount>>
    /\ UNCHANGED notAdmit

\* websocket.accept() raises an Exception: `except Exception` reports it.
WsAcceptFails(c) ==
    /\ wsPc[c] = "accepting"
    /\ wsPc' = [wsPc EXCEPT ![c] = "reporting"]
    /\ UNCHANGED <<SEMAPHORE, ACTIVE_SESSIONS, incCount, decCount, durCount>>
    /\ UNCHANGED notAdmit

\* _run_route() returns (health refusal, or the task group ended without an
\* exception after a close-stream): the finally block runs.
WsRunReturns(c) ==
    /\ wsPc[c] = "running"
    /\ WsFinally(c)

\* handler.start_up() or _run_route() raises (a task failure, a client
\* disconnect surfacing as WebSocketClosedError): `except Exception`.
WsRunRaises(c) ==
    /\ wsPc[c] = "running"
    /\ wsPc' = [wsPc EXCEPT ![c] = "reporting"]
    /\ UNCHANGED <<SEMAPHORE, ACTIVE_SESSIONS, incCount, decCount, durCount>>
    /\ UNCHANGED notAdmit

\* _report_websocket_exception() ends, by returning or by raising: either
\* way the finally block runs next.
WsReportEnds(c) ==
    /\ wsPc[c] = "reporting"
    /\ WsFinally(c)

\* The invocation is cancelled at an await inside the try block:
\* CancelledError is not an Exception, so only the finally block runs.
WsCancelInside(c) ==
    /\ wsPc[c] \in {"accepting", "running"}
    /\ WsFinally(c)

AdmitInit == AdmitStart /\ RouteIdle /\ FramesIdle /\ LlmIdle /\ ToolIdle
    /\ ChatIdle /\ FnIdle /\ ReportIdle /\ EndIdle /\ PpIdle
    /\ CmIdle

AdmitNext ==
    \E c \in Clients :
        \/ WsEnter(c)
        \/ WsAcquire(c)
        \/ WsCancelWaiting(c)
        \/ WsAcceptOk(c)
        \/ WsAcceptFails(c)
        \/ WsRunReturns(c)
        \/ WsRunRaises(c)
        \/ WsReportEnds(c)
        \/ WsCancelInside(c)

SpecAdmit == AdmitInit /\ [][AdmitNext]_vars

\* ------------------------------------------------------------------------
\* Claims on admission
\* ------------------------------------------------------------------------

\* C1: at most MAX_CLIENTS invocations are between websocket.accept and the
\* release of their slot; slots held plus free slots is always MAX_CLIENTS,
\* so a further invocation waits until a slot is released.
C1_AdmissionCeiling ==
    /\ Cardinality(Accepted) <= MAX_CLIENTS
    /\ Cardinality(Holding) + SEMAPHORE = MAX_CLIENTS
    /\ SEMAPHORE >= 0

\* C1 witness: MAX_CLIENTS invocations are accepted and one more waits.
C1_Witness ==
    /\ Cardinality(Accepted) = MAX_CLIENTS
    /\ \E c \in Clients : wsPc[c] = "waiting"

\* C3 (as claimed): every invocation that has ended decremented the gauge
\* exactly once and recorded its duration exactly once.
C3_GaugeBalanced ==
    \A c \in Clients :
        wsPc[c] \in {"closed", "cancelled"} =>
            /\ incCount[c] = 1
            /\ decCount[c] = 1
            /\ durCount[c] = 1

\* ========================================================================
\* The supervised task group: _run_route
\* ========================================================================

Routes == 1..NumRoutes

\* The four tasks _run_route creates in its asyncio.TaskGroup.
TaskNames == {"receive_loop", "emit_loop", "quest_manager_wait", "debug_running_tasks"}

\* Tasks whose coroutine can return: emit_loop leaves its loop on CloseStream.
\* receive_loop and debug_running_tasks are `while True` loops that end only
\* by an exception.
ReturningTasks == {"emit_loop"}

\* Status of a task:
\*   "none"        not created
\*   "running"     created, not ended
\*   "returned"    ended by returning
\*   "failed"      ended with an exception
\*   "cancelling"  cancel() was called by the task group, not yet ended
\*   "cancelled"   ended with CancelledError
TaskEnded == {"returned", "failed", "cancelled"}

\* `health` before get_health() has answered.
NoHealth ==
    [answered |-> FALSE, tts_up |-> FALSE, stt_up |-> FALSE, llm_up |-> FALSE,
     voice_cloning_up |-> FALSE]

\* The sessions of S are about to call _run_route.
RouteStartOn(S) ==
    /\ rtPc = [s \in S |-> "health"]
    /\ task = [s \in S |-> [t \in TaskNames |-> "none"]]
    /\ cleanupCount = [s \in S |-> 0]
    /\ rtClosed = [s \in S |-> FALSE]
    /\ health = [s \in S |-> NoHealth]

RouteStart == RouteStartOn(Routes)

HealthOk_NeedsVoiceCloning(tts_up, stt_up, llm_up, voice_cloning_up) ==
    tts_up /\ stt_up /\ llm_up /\ voice_cloning_up

\* HealthStatus.ok: voice cloning is not required.
HealthOk(tts_up, stt_up, llm_up, voice_cloning_up) == tts_up /\ stt_up /\ llm_up

\* HealthStatus, as answered by get_health() (answered is TRUE).
HealthStatus(tts_up, stt_up, llm_up, voice_cloning_up) ==
    [answered |-> TRUE, tts_up |-> tts_up, stt_up |-> stt_up, llm_up |-> llm_up,
     voice_cloning_up |-> voice_cloning_up]

\* _run_route up to the creation of the tasks: get_health() answers; if the
\* server is not healthy the websocket is closed and the call returns,
\* otherwise the four tasks are created.
RtHealthStep(s, tts_up, stt_up, llm_up, voice_cloning_up) ==
    /\ rtPc[s] = "health"
    /\ IF HealthOk(tts_up, stt_up, llm_up, voice_cloning_up)
          THEN /\ task' = [task EXCEPT ![s] = [t \in TaskNames |-> "running"]]
               /\ rtPc' = [rtPc EXCEPT ![s] = "tasks"]
               /\ UNCHANGED rtClosed
          ELSE /\ rtClosed' = [rtClosed EXCEPT ![s] = TRUE]
               /\ rtPc' = [rtPc EXCEPT ![s] = "refused"]
               /\ UNCHANGED task
    /\ UNCHANGED cleanupCount
    /\ UNCHANGED notRoute

\* The step of _run_route above, the answer of get_health() not kept.
RtHealth(s, tts_up, stt_up, llm_up, voice_cloning_up) ==
    /\ RtHealthStep(s, tts_up, stt_up, llm_up, voice_cloning_up)
    /\ UNCHANGED health

\* The same step, the answer of get_health() kept in `health`.
RtHealthObserved(s, tts_up, stt_up, llm_up, voice_cloning_up) ==
    /\ RtHealthStep(s, tts_up, stt_up, llm_up, voice_cloning_up)
    /\ health' = [health EXCEPT ![s] =
                     HealthStatus(tts_up, stt_up, llm_up, voice_cloning_up)]

RtTaskFails_NoCancel(s, t) ==
    /\ rtPc[s] = "tasks"
    /\ task[s][t] = "running"
    /\ task' = [task EXCEPT ![s][t] = "failed"]
    /\ UNCHANGED <<rtPc, cleanupCount, rtClosed, health>>
    /\ UNCHANGED notRoute

\* A task of the group ends with an exception: the TaskGroup cancels every
\* task of the group that has not ended.
RtTaskFails(s, t) ==
    /\ rtPc[s] = "tasks"
    /\ task[s][t] = "running"
    /\ task' = [task EXCEPT ![s] =
                  [u \in TaskNames |->
                      IF u = t THEN "failed"
                      ELSE IF task[s][u] = "running" THEN "cancelling"
                      ELSE task[s][u]]]
    /\ UNCHANGED <<rtPc, cleanupCount, rtClosed, health>>
    /\ UNCHANGED notRoute

\* A task returns without an exception: the others go on.
RtTaskReturns(s, t) ==
    /\ rtPc[s] = "tasks"
    /\ t \in ReturningTasks
    /\ task[s][t] = "running"
    /\ task' = [task EXCEPT ![s][t] = "returned"]
    /\ UNCHANGED <<rtPc, cleanupCount, rtClosed, health>>
    /\ UNCHANGED notRoute

\* A task whose cancellation was requested ends at its current await: none
\* of the four coroutines catches CancelledError.
RtTaskCancelled(s, t) ==
    /\ rtPc[s] = "tasks"
    /\ task[s][t] = "cancelling"
    /\ task' = [task EXCEPT ![s][t] = "cancelled"]
    /\ UNCHANGED <<rtPc, cleanupCount, rtClosed, health>>
    /\ UNCHANGED notRoute

\* TaskGroup.__aexit__ returns once every task has ended; the finally block
\* of _run_route then calls handler.cleanup(); the group's exceptions, if
\* any, propagate as an ExceptionGroup.
RtGroupExit(s) ==
    /\ rtPc[s] = "tasks"
    /\ \A t \in TaskNames : task[s][t] \in TaskEnded
    /\ cleanupCount' = [cleanupCount EXCEPT ![s] = @ + 1]
    /\ rtPc' = [rtPc EXCEPT ![s] =
                  IF \E t \in TaskNames : task[s][t] = "failed"
                     THEN "raised" ELSE "returned"]
    /\ UNCHANGED <<task, rtClosed, health>>
    /\ UNCHANGED notRoute

RouteInit == RouteStart /\ AdmitIdle /\ FramesIdle /\ LlmIdle /\ ToolIdle
    /\ ChatIdle /\ FnIdle /\ ReportIdle /\ EndIdle /\ PpIdle
    /\ CmIdle

RouteNext ==
    \E s \in DOMAIN rtPc :
        \/ \E tts_up, stt_up, llm_up, voice_cloning_up \in BOOLEAN :
              RtHealth(s, tts_up, stt_up, llm_up, voice_cloning_up)
        \/ \E t \in TaskNames : RtTaskFails(s, t)
        \/ \E t \in TaskNames : RtTaskReturns(s, t)
        \/ \E t \in TaskNames : RtTaskCancelled(s, t)
        \/ RtGroupExit(s)

SpecRoute == RouteInit /\ [][RouteNext]_vars

\* SpecHealth: one session, the answer of its health check kept.
HealthRoutes == {1}

HealthInit == RouteStartOn(HealthRoutes) /\ AdmitIdle /\ FramesIdle /\ LlmIdle /\ ToolIdle
    /\ ChatIdle /\ FnIdle /\ ReportIdle /\ EndIdle /\ PpIdle
    /\ CmIdle

HealthNext ==
    \E s \in DOMAIN rtPc :
        \/ \E tts_up, stt_up, llm_up, voice_cloning_up \in BOOLEAN :
              RtHealthObserved(s, tts_up, stt_up, llm_up, voice_cloning_up)
        \/ \E t \in TaskNames : RtTaskFails(s, t)
        \/ \E t \in TaskNames : RtTaskReturns(s, t)
        \/ \E t \in TaskNames : RtTaskCancelled(s, t)
        \/ RtGroupExit(s)

SpecHealth == HealthInit /\ [][HealthNext]_vars

\* ------------------------------------------------------------------------
\* Claims on the task group
\* ------------------------------------------------------------------------

\* C2: once a task of a session has ended with an exception, no other task
\* of that session is left running uncancelled; when _run_route ends after
\* such a failure every task has ended and handler.cleanup() ran once; and a
\* task is cancelled only if a task of its own session failed.
C2_FailureCancelsGroup ==
    \A s \in Routes :
        /\ (\E t \in TaskNames : task[s][t] = "failed") =>
              \A u \in TaskNames : task[s][u] # "running"
        /\ rtPc[s] = "raised" =>
              /\ \A u \in TaskNames : task[s][u] \in TaskEnded
              /\ cleanupCount[s] = 1
        /\ (\E u \in TaskNames : task[s][u] \in {"cancelling", "cancelled"}) =>
              \E t \in TaskNames : task[s][t] = "failed"

\* C2 witness: one session ended after a task failure with its other tasks
\* cancelled and cleanup done, while a second session still runs all four.
C2_Witness ==
    \E s, o \in Routes :
        /\ s # o
        /\ rtPc[s] = "raised"
        /\ \E t \in TaskNames : task[s][t] = "cancelled"
        /\ cleanupCount[s] = 1
        /\ rtPc[o] = "tasks"
        /\ \A u \in TaskNames : task[o][u] = "running"

\* C25: a session whose health check reported STT, TTS or the chat service
\* down is closed by _run_route with none of the four tasks (receive_loop,
\* which processes the inbound frames, among them) ever created and no
\* cleanup run; a session whose health check reported the three up is not
\* closed by _run_route and has its tasks, whatever the health check said
\* of voice cloning.
C25_UnhealthyClosedBeforeTasks ==
    \A s \in DOMAIN health :
        health[s].answered =>
            IF health[s].tts_up /\ health[s].stt_up /\ health[s].llm_up
               THEN /\ ~rtClosed[s]
                    /\ rtPc[s] # "refused"
                    /\ \A t \in TaskNames : task[s][t] # "none"
               ELSE /\ rtClosed[s]
                    /\ rtPc[s] = "refused"
                    /\ \A t \in TaskNames : task[s][t] = "none"
                    /\ cleanupCount[s] = 0

\* C25 witness: a session was refused with only the STT down and voice
\* cloning up.
C25_Witness ==
    \E s \in DOMAIN health :
        /\ health[s] = HealthStatus(TRUE, FALSE, TRUE, TRUE)
        /\ rtPc[s] = "refused"
        /\ rtClosed[s]

\* ========================================================================
\* receive_loop and emit_loop of one session
\* ========================================================================

\* Text frames a client can send, by what ClientEventAdapter.validate_json
\* makes of them:
\*   "not_json"         not valid JSON
\*   "unknown_type"     JSON that matches no member of ora.ClientEvent (an
\*                      unknown "type", or fields that do not validate)
\*   "session.update"   a valid SessionUpdate
\*   "audio_bos"        a valid InputAudioBufferAppend, byte 5 has bit 2 set
\*   "audio"            a valid InputAudioBufferAppend, bit not set
\*   "append_anonymized" a valid UnmuteInputAudioBufferAppendAnonymized
\* "session.characters.reload" is a well-formed reload-character-set frame:
\* its type is none of the discriminators of ora.ClientEvent, so
\* ClientEventAdapter.validate_json raises ValidationError for it.
InvalidFrames == {"not_json", "unknown_type", "session.characters.reload"}
\* input_audio_buffer.append frames, by the bytes their `audio` decodes to:
\* "audio_bos" has at least 6 bytes and bit 2 of byte 5 set, "audio" has at
\* least 6 bytes and the bit clear, "audio_short" has fewer than 6 bytes
\* (`audio` may be the empty string).
AudioFrames == {"audio_bos", "audio", "audio_short"}
\* The frames of SpecFrames: every kind but the reload frame, which is
\* handled as "unknown_type" is and has its own specification below.
FrameKinds ==
    {"not_json", "unknown_type"} \cup AudioFrames \cup {"session.update", "append_anonymized"}

\* Server events, by type; `by` tells who produced the event.
ErrorEvent(etype, code) == [type |-> "error", etype |-> etype, code |-> code, by |-> "receive_loop"]
SessionUpdatedEvent == [type |-> "session.updated", etype |-> "", code |-> "", by |-> "receive_loop"]
HandlerEvent(type) == [type |-> type, etype |-> "", code |-> "", by |-> "handler"]

\* What handler.emit() can return to emit_loop.
HandlerItems ==
    {"none", "additional_outputs", "close_stream", "server_event", "audio", "audio_no_output"}

FramesStart ==
    /\ wsOpen = TRUE
    /\ recvPc = "running"
    /\ emitPc = "top"
    /\ frames = <<>>
    /\ emit_queue = <<>>
    /\ sent = <<>>
    /\ wait_for_first_opus = TRUE
    /\ decoded = <<>>
    /\ polls = 0

\* The except clauses around ClientEventAdapter.validate_json: a frame that
\* does not validate puts one Error on the emit queue.
ValidationEvents(f) ==
    IF f \in InvalidFrames
       THEN <<ErrorEvent("invalid_request_error", "")>>
       ELSE <<>>

\* The members of ora that receive_loop names and the module defines.
\* SessionCharactersReload and SessionCharactersList are named in the
\* isinstance chain but are not defined in openai_realtime_api_events.py.
OraDefines(name) == name \in {"InputAudioBufferAppend", "SessionUpdate",
                              "UnmuteAdditionalOutputs",
                              "UnmuteInputAudioBufferAppendAnonymized"}

\* One iteration of receive_loop on a received text frame f.
RecvFrame(f) ==
    /\ recvPc = "running"
    /\ wsOpen
    /\ Len(frames) < MaxFrames
    /\ frames' = Append(frames, f)
    /\ IF f \in InvalidFrames
          THEN /\ emit_queue' = emit_queue \o ValidationEvents(f)
               /\ UNCHANGED <<recvPc, wait_for_first_opus, decoded>>
       ELSE IF f \in AudioFrames
          THEN IF wait_for_first_opus /\ f = "audio_short"
                  THEN /\ recvPc' = "failed"   \* opus_bytes[5]: IndexError
                       /\ UNCHANGED <<emit_queue, wait_for_first_opus, decoded>>
               ELSE IF wait_for_first_opus /\ f # "audio_bos"
                  THEN UNCHANGED <<emit_queue, recvPc, wait_for_first_opus, decoded>>
                  ELSE /\ wait_for_first_opus' = FALSE
                       /\ decoded' = Append(decoded, Len(frames) + 1)
                       /\ UNCHANGED <<emit_queue, recvPc>>
       ELSE IF f = "session.update"
          THEN /\ emit_queue' = Append(emit_queue, SessionUpdatedEvent)
               /\ UNCHANGED <<recvPc, wait_for_first_opus, decoded>>
       ELSE \* the isinstance chain goes on to ora.SessionCharactersReload
            IF OraDefines("SessionCharactersReload")
               THEN UNCHANGED <<emit_queue, recvPc, wait_for_first_opus, decoded>>
               ELSE /\ recvPc' = "failed"   \* AttributeError
                    /\ UNCHANGED <<emit_queue, wait_for_first_opus, decoded>>
    /\ UNCHANGED <<wsOpen, emitPc, sent, polls>>
    /\ UNCHANGED notFrames

\* websocket.receive_text() raises because the transport is closed:
\* receive_loop raises WebSocketClosedError.
RecvDisconnected ==
    /\ recvPc = "running"
    /\ ~wsOpen
    /\ recvPc' = "closed"
    /\ UNCHANGED <<wsOpen, emitPc, frames, emit_queue, sent, wait_for_first_opus,
                   decoded, polls>>
    /\ UNCHANGED notFrames

\* The client closes the connection.
ClientDisconnect ==
    /\ wsOpen
    /\ wsOpen' = FALSE
    /\ UNCHANGED <<recvPc, emitPc, frames, emit_queue, sent, wait_for_first_opus,
                   decoded, polls>>
    /\ UNCHANGED notFrames

QueueGet_Lifo(q) == q[Len(q)]

\* asyncio.Queue.get_nowait(): the oldest item.
QueueGet(q) == Head(q)

QueueRest(q) ==
    IF QueueGet(q) = Head(q) THEN Tail(q) ELSE SubSeq(q, 1, Len(q) - 1)

\* Top of an emit_loop iteration with the transport disconnected.
EmitDisconnected ==
    /\ emitPc = "top"
    /\ ~wsOpen
    /\ emitPc' = "closed"
    /\ UNCHANGED <<wsOpen, recvPc, frames, emit_queue, sent, wait_for_first_opus,
                   decoded, polls>>
    /\ UNCHANGED notFrames

QueueEmpty_Always(q) == TRUE

\* emit_queue.get_nowait() raises asyncio.QueueEmpty.
QueueEmpty(q) == q = <<>>

\* An emit_loop iteration that finds an event on the emit queue and sends it.
EmitFromQueue ==
    /\ emitPc = "top"
    /\ wsOpen
    /\ emit_queue # <<>>
    /\ sent' = Append(sent, QueueGet(emit_queue))
    /\ emit_queue' = QueueRest(emit_queue)
    /\ UNCHANGED <<wsOpen, recvPc, emitPc, frames, wait_for_first_opus, decoded, polls>>
    /\ UNCHANGED notFrames

\* An emit_loop iteration that finds the queue empty: handler.emit() is awaited.
EmitPoll ==
    /\ emitPc = "top"
    /\ wsOpen
    /\ QueueEmpty(emit_queue)
    /\ polls < MaxPolls
    /\ polls' = polls + 1
    /\ emitPc' = "polling"
    /\ UNCHANGED <<wsOpen, recvPc, frames, emit_queue, sent, wait_for_first_opus, decoded>>
    /\ UNCHANGED notFrames

WebsocketClose_Skipped(open) == open

\* `await websocket.close()`: the transport is closed.
WebsocketClose(open) == FALSE

\* handler.emit() returns item: nothing to emit, the close-stream sentinel
\* (the transport is closed and the loop left), or something to send.
EmitHandlerItem(item) ==
    /\ emitPc = "polling"
    /\ IF item \in {"none", "audio_no_output"}
          THEN /\ emitPc' = "top"
               /\ UNCHANGED <<wsOpen, sent>>
       ELSE IF item = "close_stream"
          THEN /\ wsOpen' = WebsocketClose(wsOpen)
               /\ emitPc' = "returned"
               /\ UNCHANGED sent
       ELSE IF wsOpen
          THEN /\ sent' = Append(sent, HandlerEvent(
                            IF item = "audio" THEN "response.audio.delta"
                            ELSE IF item = "additional_outputs" THEN "unmute.additional_outputs"
                            ELSE "response.text.delta"))
               /\ emitPc' = "top"
               /\ UNCHANGED wsOpen
          ELSE \* send_text raises: WebSocketClosedError
               /\ emitPc' = "closed"
               /\ UNCHANGED <<wsOpen, sent>>
    /\ UNCHANGED <<recvPc, frames, emit_queue, wait_for_first_opus, decoded, polls>>
    /\ UNCHANGED notFrames

\* The task group cancels the loop that is still running once the other
\* has ended with an exception.
LoopCancelled ==
    /\ \/ /\ recvPc \in {"closed", "failed"}
          /\ emitPc \in {"top", "polling"}
          /\ emitPc' = "cancelled"
          /\ UNCHANGED recvPc
       \/ /\ emitPc = "closed"
          /\ recvPc = "running"
          /\ recvPc' = "cancelled"
          /\ UNCHANGED emitPc
    /\ UNCHANGED <<wsOpen, frames, emit_queue, sent, wait_for_first_opus, decoded, polls>>
    /\ UNCHANGED notFrames

FramesInit == FramesStart /\ AdmitIdle /\ RouteIdle /\ LlmIdle /\ ToolIdle
    /\ ChatIdle /\ FnIdle /\ ReportIdle /\ EndIdle /\ PpIdle
    /\ CmIdle

FramesNext ==
    \/ \E f \in FrameKinds : RecvFrame(f)
    \/ RecvDisconnected
    \/ ClientDisconnect
    \/ EmitDisconnected
    \/ EmitFromQueue
    \/ EmitPoll
    \/ \E item \in HandlerItems : EmitHandlerItem(item)
    \/ LoopCancelled

SpecFrames == FramesInit /\ [][FramesNext]_vars

\* SpecReloadFrames: receive_loop and emit_loop of a session whose client
\* sends reload-character-set frames and session.update frames.
ReloadFrameKinds == {"session.characters.reload", "session.update"}

ReloadFramesNext ==
    \/ \E f \in ReloadFrameKinds : RecvFrame(f)
    \/ RecvDisconnected
    \/ ClientDisconnect
    \/ EmitDisconnected
    \/ EmitFromQueue
    \/ EmitPoll
    \/ \E item \in HandlerItems : EmitHandlerItem(item)
    \/ LoopCancelled

SpecReloadFrames == FramesInit /\ [][ReloadFramesNext]_vars

\* ------------------------------------------------------------------------
\* Claims on receive_loop / emit_loop
\* ------------------------------------------------------------------------

RECURSIVE ExpectedEvents(_)
\* The events the frames of fs call for: one invalid_request_error per frame
\* that does not validate, one session.updated per session.update.
ExpectedEvents(fs) ==
    IF fs = <<>> THEN <<>>
    ELSE LET f == Head(fs)
             e == IF f \in InvalidFrames THEN <<ErrorEvent("invalid_request_error", "")>>
                  ELSE IF f = "session.update" THEN <<SessionUpdatedEvent>>
                  ELSE <<>>
         IN  e \o ExpectedEvents(Tail(fs))

RECURSIVE FromReceiveLoop(_)
\* The events of es that receive_loop produced, in order.
FromReceiveLoop(es) ==
    IF es = <<>> THEN <<>>
    ELSE (IF Head(es).by = "receive_loop" THEN <<Head(es)>> ELSE <<>>)
         \o FromReceiveLoop(Tail(es))

\* Frames handled without ending receive_loop.
BenignFrames == InvalidFrames \cup {"audio_bos", "audio", "session.update"}

\* C4: the events receive_loop produced, those already sent followed by those
\* still queued, are exactly one invalid_request_error per invalid frame and
\* one session.updated per session.update, in frame order; and while only
\* such frames arrived and the transport is connected, receive_loop runs on.
C4_InvalidFrameThenUpdate ==
    /\ FromReceiveLoop(sent) \o emit_queue = ExpectedEvents(frames)
    /\ (wsOpen /\ \A i \in 1..Len(frames) : frames[i] \in BenignFrames)
          => recvPc = "running" /\ emitPc \in {"top", "polling"}

\* C4 witness: a non-JSON frame then a session.update were received, and the
\* client was sent the error then the acknowledgement, the session still open.
C4_Witness ==
    /\ frames = <<"not_json", "session.update">>
    /\ FromReceiveLoop(sent) =
          <<ErrorEvent("invalid_request_error", ""), SessionUpdatedEvent>>
    /\ emit_queue = <<>>
    /\ wsOpen
    /\ recvPc = "running"

RECURSIVE AudioFromStart(_, _, _)
\* The positions, in order, of the audio frames of fs from the first
\* stream-start frame on; i is the position of Head(fs) and begun tells
\* that a stream-start frame came before it.
AudioFromStart(fs, i, begun) ==
    IF fs = <<>> THEN <<>>
    ELSE LET f == Head(fs)
             now == begun \/ f = "audio_bos"
         IN  (IF f \in AudioFrames /\ now THEN <<i>> ELSE <<>>)
             \o AudioFromStart(Tail(fs), i + 1, now)

\* The events with which a reload-character-set frame may be answered.
ReloadAnswers ==
    {ErrorEvent("server_error", code) :
        code \in {"directory_not_found", "invalid_directory_format",
                  "no_valid_characters", "character_reload_failed"}}
      \cup {[type |-> "session.characters.reloaded", etype |-> "", code |-> "",
              by |-> "receive_loop"]}

\* C31 (as claimed): the step that receives a reload-character-set frame
\* puts exactly one event on the emit queue, an error with one of the four
\* reload codes or the success event, and receive_loop runs on.
C31_ReloadAnswered ==
    [][(Len(frames') = Len(frames) + 1
          /\ frames'[Len(frames')] = "session.characters.reload") =>
            /\ Len(emit_queue') = Len(emit_queue) + 1
            /\ emit_queue'[Len(emit_queue')] \in ReloadAnswers
            /\ recvPc' = "running"]_vars

\* C40 (as claimed): the step that receives a valid
\* unmute.input_audio_buffer.append_anonymized frame puts no event on the
\* emit queue and leaves receive_loop running.
C40_UnhandledKindIgnored ==
    [][(Len(frames') = Len(frames) + 1
          /\ frames'[Len(frames')] = "append_anonymized") =>
            /\ emit_queue' = emit_queue
            /\ recvPc' = "running"]_vars

\* C26 (as claimed): the frames handed to the opus decoder are the
\* stream-start frame and every audio frame after it, in arrival order, and
\* no audio frame before it; and while the frames received are audio frames
\* that precede any stream-start frame, receive_loop has produced no server
\* event and still runs.
C26_AudioDiscardedUntilStreamStart ==
    /\ decoded = AudioFromStart(frames, 1, FALSE)
    /\ (wsOpen /\ \A i \in 1..Len(frames) :
                     frames[i] \in AudioFrames \ {"audio_bos"}) =>
          /\ recvPc = "running"
          /\ emitPc \in {"top", "polling"}
          /\ emit_queue = <<>>
          /\ FromReceiveLoop(sent) = <<>>

\* C27: emit_loop starts to await handler.emit() only in a step that finds
\* the emit queue empty; an event produced by receive_loop is sent only as
\* the head of the emit queue, which then loses it; the queue changes in no
\* other way than by losing its head or by gaining events at its tail; and
\* an event of the handler is sent only by the iteration that polled it.
C27_QueueBeforeProducer ==
    [][/\ (emitPc # "polling" /\ emitPc' = "polling") => emit_queue = <<>>
       /\ sent' # sent =>
             /\ Len(sent') = Len(sent) + 1
             /\ SubSeq(sent', 1, Len(sent)) = sent
             /\ IF sent'[Len(sent')].by = "handler"
                   THEN emitPc = "polling" /\ emit_queue' = emit_queue
                   ELSE /\ emit_queue # <<>>
                        /\ sent'[Len(sent')] = Head(emit_queue)
                        /\ emit_queue' = Tail(emit_queue)
       /\ sent' = sent =>
             /\ Len(emit_queue') >= Len(emit_queue)
             /\ SubSeq(emit_queue', 1, Len(emit_queue)) = emit_queue]_vars

\* C27 witness: two events were queued and sent in the order queued; only
\* then, the queue empty, is the handler polled.
C27_Witness ==
    /\ emitPc = "polling"
    /\ polls = 1
    /\ frames = <<"unknown_type", "session.update">>
    /\ sent = <<ErrorEvent("invalid_request_error", ""), SessionUpdatedEvent>>
    /\ emit_queue = <<>>

\* ========================================================================
\* VLLMStream.chat_completion
\* ========================================================================

\* A content delta is an opaque non-empty string: the code only tests it for
\* emptiness, appends it to a list and yields it.  The delta of the k-th chunk
\* of stream n is written [stream |-> n, chunk |-> k].  An argument fragment
\* is likewise written by the number of the chunk that carried it, and an
\* accumulated argument string is the sequence of its fragments.

ToolIndexes == 0..MaxToolIndex

\* One tool-call delta of a chunk: its index, whether it carries an id and a
\* function name, and whether it carries a non-empty arguments fragment.
ToolCallDeltas ==
    [index : ToolIndexes, header : BOOLEAN, arguments : BOOLEAN]

NoToolCall == [index |-> -1, header |-> FALSE, arguments |-> FALSE]

LlmStart ==
    /\ llmPc = "start"
    /\ buffer_order = <<>>
    /\ arrived = <<>>
    /\ started = <<>>
    /\ tools \in BOOLEAN
    /\ prompt_generator \in BOOLEAN
    /\ requests = <<>>
    /\ nChunks = 0
    /\ tool_calls_buffer = <<>>
    /\ assistant_message_content = <<>>
    /\ tool_calls_detected = FALSE
    /\ yielded = <<>>
    /\ messages = <<>>
    /\ pendingCalls = <<>>

\* chat_completion up to its first await: the request is built, with the
\* tool declarations if self.tools is non-empty, and issued.
LlmCreate ==
    /\ llmPc = "start"
    /\ requests' = Append(requests, [withTools |-> tools, nMessages |-> Len(messages)])
    /\ llmPc' = "stream1"
    /\ UNCHANGED <<tools, prompt_generator, nChunks, tool_calls_buffer,
                   assistant_message_content, tool_calls_detected, yielded, messages,
                   pendingCalls, buffer_order, arrived, started>>
    /\ UNCHANGED notLlm

YieldImmediately_Always == TRUE

YieldImmediately_DroppedNot == ~tools \/ prompt_generator

\* `if not self.tools or not self.prompt_generator: yield chunk_content`
YieldImmediately == ~tools \/ ~prompt_generator

BufferAfter_Overwrite(buf, d, k) ==
    LET old == IF d.index \in DOMAIN buf
                  THEN buf[d.index]
                  ELSE [id |-> d.header, name |-> d.header, arguments |-> <<>>]
        new == [id        |-> IF d.header THEN TRUE ELSE old.id,
                name      |-> IF d.header THEN TRUE ELSE old.name,
                arguments |-> IF d.arguments THEN <<k>> ELSE old.arguments]
    IN  [i \in (DOMAIN buf) \cup {d.index} |-> IF i = d.index THEN new ELSE buf[i]]

\* The buffer after one tool-call delta d carried by chunk k.
BufferAfter(buf, d, k) ==
    LET old == IF d.index \in DOMAIN buf
                  THEN buf[d.index]
                  ELSE [id |-> d.header, name |-> d.header, arguments |-> <<>>]
        new == [id        |-> IF d.header THEN TRUE ELSE old.id,
                name      |-> IF d.header THEN TRUE ELSE old.name,
                arguments |-> IF d.arguments THEN Append(old.arguments, k)
                              ELSE old.arguments]
    IN  [i \in (DOMAIN buf) \cup {d.index} |-> IF i = d.index THEN new ELSE buf[i]]

\* One chunk of the first stream: at most one tool-call delta d, and a
\* content delta if hasContent.
LlmChunk(d, hasContent) ==
    /\ llmPc = "stream1"
    /\ nChunks < MaxChunks
    /\ nChunks' = nChunks + 1
    /\ IF d # NoToolCall
          THEN /\ tool_calls_detected' = TRUE
               /\ tool_calls_buffer' = BufferAfter(tool_calls_buffer, d, nChunks + 1)
               /\ buffer_order' = IF d.index \in DOMAIN tool_calls_buffer
                                     THEN buffer_order
                                     ELSE Append(buffer_order, d.index)
               /\ arrived' = IF d.arguments
                                THEN Append(arrived, [index |-> d.index, chunk |-> nChunks + 1])
                                ELSE arrived
          ELSE UNCHANGED <<tool_calls_detected, tool_calls_buffer, buffer_order, arrived>>
    /\ IF hasContent
          THEN /\ assistant_message_content' =
                     Append(assistant_message_content, [stream |-> 1, chunk |-> nChunks + 1])
               /\ IF YieldImmediately
                     THEN yielded' = Append(yielded,
                              [delta |-> [stream |-> 1, chunk |-> nChunks + 1],
                               firstStreamOpen |-> TRUE])
                     ELSE UNCHANGED yielded
          ELSE UNCHANGED <<assistant_message_content, yielded>>
    /\ UNCHANGED <<llmPc, tools, prompt_generator, requests, messages, pendingCalls,
                   started>>
    /\ UNCHANGED notLlm

SortedSeq_Descending(S) ==
    [i \in 1..Cardinality(S) |->
        CHOOSE x \in S : Cardinality({y \in S : y > x}) = i - 1]

RECURSIVE SortedSeq(_)
\* sorted(S) for a finite set of integers.
SortedSeq(S) ==
    IF S = {} THEN <<>>
    ELSE LET m == CHOOSE x \in S : \A y \in S : x <= y
         IN  <<m>> \o SortedSeq(S \ {m})

\* `if tool_calls_detected and self.prompt_generator and self.tools`
ExecutesTools == tool_calls_detected /\ prompt_generator /\ tools

FlushesBuffer_Never == FALSE

\* `elif not tool_calls_detected and assistant_message_content`
FlushesBuffer == ~tool_calls_detected /\ assistant_message_content # <<>>

\* The first stream ends.  With tool calls to execute, the assistant message
\* carrying the buffered content and the tool calls (sorted by index) is
\* appended; otherwise buffered content, if any, is yielded.
LlmStreamEnds ==
    /\ llmPc = "stream1"
    /\ IF ExecutesTools
          THEN /\ messages' = Append(messages,
                      [role |-> "assistant",
                       content |-> IF assistant_message_content # <<>>
                                      THEN assistant_message_content ELSE <<"None">>,
                       tool_calls |-> SortedSeq(DOMAIN tool_calls_buffer)])
               /\ pendingCalls' = SortedSeq(DOMAIN tool_calls_buffer)
               /\ llmPc' = "exec"
               /\ UNCHANGED yielded
       ELSE IF FlushesBuffer
          THEN /\ yielded' = yielded \o
                      [i \in 1..Len(assistant_message_content) |->
                          [delta |-> assistant_message_content[i],
                           firstStreamOpen |-> FALSE]]
               /\ llmPc' = "done"
               /\ UNCHANGED <<messages, pendingCalls>>
       ELSE /\ llmPc' = "done"
            /\ UNCHANGED <<yielded, messages, pendingCalls>>
    /\ UNCHANGED <<tools, prompt_generator, requests, nChunks, tool_calls_buffer,
                   assistant_message_content, tool_calls_detected, buffer_order,
                   arrived, started>>
    /\ UNCHANGED notLlm

RequeryWithTools_Same == tools

\* The follow-up create() call passes no `tools` parameter.
RequeryWithTools == FALSE

\* The for loop takes the next tool call and calls execute_tool for it.
LlmToolStart ==
    /\ llmPc = "exec"
    /\ pendingCalls # <<>>
    /\ started' = Append(started, Head(pendingCalls))
    /\ llmPc' = "awaiting_tool"
    /\ UNCHANGED <<tools, prompt_generator, requests, nChunks, tool_calls_buffer,
                   assistant_message_content, tool_calls_detected, yielded, messages,
                   pendingCalls, buffer_order, arrived>>
    /\ UNCHANGED notLlm

\* `await execute_tool(...)` for the tool call of the for loop ends.  If it
\* returns, the tool message is appended, and after the last tool call the
\* re-query is issued; if it raises, chat_completion raises.
LlmToolExecuted(raises) ==
    /\ llmPc = "awaiting_tool"
    /\ pendingCalls # <<>>
    /\ IF raises
          THEN /\ llmPc' = "raised"
               /\ UNCHANGED <<messages, pendingCalls, requests, nChunks>>
          ELSE /\ messages' = Append(messages,
                      [role |-> "tool", tool_call_id |-> Head(pendingCalls)])
               /\ pendingCalls' = Tail(pendingCalls)
               /\ IF Tail(pendingCalls) = <<>>
                     THEN /\ requests' = Append(requests,
                                 [withTools |-> RequeryWithTools,
                                  nMessages |-> Len(messages) + 1])
                          /\ nChunks' = 0
                          /\ llmPc' = "stream2"
                     ELSE /\ llmPc' = "exec"
                          /\ UNCHANGED <<requests, nChunks>>
    /\ UNCHANGED <<tools, prompt_generator, tool_calls_buffer,
                   assistant_message_content, tool_calls_detected, yielded,
                   buffer_order, arrived, started>>
    /\ UNCHANGED notLlm

\* One chunk of the re-query stream: its content delta, if any, is yielded;
\* tool-call deltas it may carry are not looked at.
LlmFinalChunk(hasContent) ==
    /\ llmPc = "stream2"
    /\ nChunks < MaxFinalChunks
    /\ nChunks' = nChunks + 1
    /\ IF hasContent
          THEN yielded' = Append(yielded,
                   [delta |-> [stream |-> 2, chunk |-> nChunks + 1],
                    firstStreamOpen |-> FALSE])
          ELSE UNCHANGED yielded
    /\ UNCHANGED <<llmPc, tools, prompt_generator, requests, tool_calls_buffer,
                   assistant_message_content, tool_calls_detected, messages,
                   pendingCalls, buffer_order, arrived, started>>
    /\ UNCHANGED notLlm

\* The re-query stream ends.
LlmFinalStreamEnds ==
    /\ llmPc = "stream2"
    /\ llmPc' = "done"
    /\ UNCHANGED <<tools, prompt_generator, requests, nChunks, tool_calls_buffer,
                   assistant_message_content, tool_calls_detected, yielded, messages,
                   pendingCalls, buffer_order, arrived, started>>
    /\ UNCHANGED notLlm

LlmInit == LlmStart /\ AdmitIdle /\ RouteIdle /\ FramesIdle /\ ToolIdle
    /\ ChatIdle /\ FnIdle /\ ReportIdle /\ EndIdle /\ PpIdle
    /\ CmIdle

LlmNext ==
    \/ LlmCreate
    \/ \E d \in ToolCallDeltas \cup {NoToolCall}, hasContent \in BOOLEAN :
          LlmChunk(d, hasContent)
    \/ LlmStreamEnds
    \/ LlmToolStart
    \/ \E raises \in BOOLEAN : LlmToolExecuted(raises)
    \/ \E hasContent \in BOOLEAN : LlmFinalChunk(hasContent)
    \/ LlmFinalStreamEnds

SpecLLM == LlmInit /\ [][LlmNext]_vars

\* ------------------------------------------------------------------------
\* Claims on chat_completion
\* ------------------------------------------------------------------------

\* The tool messages appended so far, as the sequence of their call indexes.
ToolMessageIds ==
    LET idx == {i \in 1..Len(messages) : messages[i].role = "tool"}
    IN  [j \in 1..Cardinality(idx) |->
            messages[CHOOSE i \in idx : Cardinality({h \in idx : h <= i}) = j].tool_call_id]

\* C5: at most two upstream requests per call; the first carries the tool
\* declarations exactly when tools are declared; a second exists only if a
\* tool call was detected and every detected tool call has been executed
\* (one tool message each, a single round), and it carries no declarations.
C5_SingleToolRound ==
    /\ Len(requests) <= 2
    /\ Len(requests) >= 1 => requests[1].withTools = tools
    /\ Len(ToolMessageIds) <= Cardinality(DOMAIN tool_calls_buffer)
    /\ Len(requests) = 2 =>
          /\ ~requests[2].withTools
          /\ tools /\ prompt_generator /\ tool_calls_detected
          /\ pendingCalls = <<>>
          /\ ToolMessageIds = SortedSeq(DOMAIN tool_calls_buffer)
          /\ requests[2].nMessages = 1 + Cardinality(DOMAIN tool_calls_buffer)

\* C5 witness: a call with tools and a handler ended after two tool calls
\* were executed and the re-query was streamed.
C5_Witness ==
    /\ llmPc = "done"
    /\ tools /\ prompt_generator
    /\ Len(requests) = 2
    /\ Len(ToolMessageIds) = 2

\* C6: with tools declared, a handler present and a tool-call delta in the
\* first stream, only deltas of the re-query stream are yielded, and once the
\* first stream has ended the appended assistant message carries exactly the
\* content buffered from it.
C6_NoLeakBeforeTools ==
    (tools /\ prompt_generator /\ tool_calls_detected) =>
        /\ \A i \in 1..Len(yielded) : yielded[i].delta.stream = 2
        /\ llmPc # "stream1" =>
              /\ Len(messages) >= 1
              /\ messages[1].role = "assistant"
              /\ messages[1].content =
                    (IF assistant_message_content # <<>>
                        THEN assistant_message_content ELSE <<"None">>)

\* C6 witness: content was buffered next to a tool call, the re-query
\* stream produced a delta, and that is all the caller got.
C6_Witness ==
    /\ tools /\ prompt_generator /\ tool_calls_detected
    /\ Len(assistant_message_content) >= 1
    /\ llmPc = "done"
    /\ Len(yielded) = 1

\* C7 (as claimed): a delta is yielded while the first stream is open only
\* if no tools are declared.
C7_EarlyYieldOnlyWithoutTools ==
    \A i \in 1..Len(yielded) : yielded[i].firstStreamOpen => ~tools

\* C7 (amended): a delta is yielded while the first stream is open only if
\* no tools are declared or no tool handler is configured.
C7_EarlyYieldOnlyWithoutToolsOrHandler ==
    /\ \A i \in 1..Len(yielded) :
          yielded[i].firstStreamOpen => (~tools \/ ~prompt_generator)
    /\ (tools /\ prompt_generator /\ llmPc = "stream1") => yielded = <<>>

\* C7 witness: tools and a handler are configured, content has arrived on
\* the first stream, which is still open, and nothing was yielded.
C7_Witness ==
    /\ tools /\ prompt_generator
    /\ llmPc = "stream1"
    /\ Len(assistant_message_content) >= 2
    /\ yielded = <<>>

\* C8: with tools declared, a handler present and no tool-call delta, once
\* the call is done the caller got every buffered delta exactly once, in
\* arrival order, all of them after the stream ended.
C8_BufferedContentFlushed ==
    (tools /\ prompt_generator /\ ~tool_calls_detected /\ llmPc = "done") =>
        /\ Len(yielded) = Len(assistant_message_content)
        /\ \A i \in 1..Len(yielded) :
              /\ yielded[i].delta = assistant_message_content[i]
              /\ ~yielded[i].firstStreamOpen
        /\ \A i \in 1..Len(assistant_message_content) :
              assistant_message_content[i].stream = 1
        /\ \A i, j \in 1..Len(assistant_message_content) :
              i < j => assistant_message_content[i].chunk < assistant_message_content[j].chunk

\* C8 witness: two content deltas were buffered and flushed.
C8_Witness ==
    /\ tools /\ prompt_generator /\ ~tool_calls_detected
    /\ llmPc = "done"
    /\ Len(yielded) = 2

\* C35 (as claimed): when no tools are declared, what chat_completion has
\* yielded is, while the stream is read and once the call has ended, the
\* sequence of the content deltas received: each one once, in arrival order.
C35_EachDeltaYieldedOnce ==
    (~tools /\ llmPc \in {"stream1", "done"}) =>
        [i \in 1..Len(yielded) |-> yielded[i].delta] = assistant_message_content

\* s is an initial part of t.
IsPrefix(s, t) ==
    /\ Len(s) <= Len(t)
    /\ \A i \in 1..Len(s) : s[i] = t[i]

\* execute_tool is called for one tool call at a time: a call starts only
\* when the tool message of every call started before it has been appended.
OneAtATime ==
    /\ IsPrefix(ToolMessageIds, started)
    /\ Len(started) <= Len(ToolMessageIds) + 1
    /\ Len(started) = Len(ToolMessageIds) + 1 => llmPc \in {"awaiting_tool", "raised"}

\* C12 (as claimed): the tool calls are executed one at a time, in the order
\* in which their indexes were first seen in the stream.
C12_ToolsRunInDetectionOrder ==
    /\ OneAtATime
    /\ IsPrefix(started, buffer_order)

\* C12 (amended): the tool calls are executed one at a time, in increasing
\* order of their stream index, lowest first and none skipped, whatever the
\* order in which the indexes arrived; when the re-query is issued every
\* detected call has been executed.
C12_ToolsRunInIndexOrder ==
    /\ OneAtATime
    /\ \A i \in 1..Len(started) :
          /\ started[i] \in DOMAIN tool_calls_buffer
          /\ \A j \in DOMAIN tool_calls_buffer :
                j < started[i] <=> (\E h \in 1..(i - 1) : started[h] = j)
    /\ llmPc = "stream2" => Len(started) = Cardinality(DOMAIN tool_calls_buffer)

\* C12 witness: index 1 was seen before index 0, and the calls ran as 0
\* then 1, both results appended.
C12_Witness ==
    /\ buffer_order = <<1, 0>>
    /\ started = <<0, 1>>
    /\ ToolMessageIds = <<0, 1>>
    /\ llmPc = "done"

\* The chunk numbers of the argument fragments received for index i, in
\* arrival order.
FragmentsOf(i) ==
    LET sel == SelectSeq(arrived, LAMBDA a : a.index = i)
    IN  [j \in 1..Len(sel) |-> sel[j].chunk]

\* C13: the arguments assembled for an index are the fragments received for
\* that index, all of them, in arrival order; every index that received a
\* fragment has an entry; and while the first stream has not ended no tool
\* call was started and no tool message appended.
C13_FragmentsConcatenated ==
    /\ \A i \in DOMAIN tool_calls_buffer :
          tool_calls_buffer[i].arguments = FragmentsOf(i)
    /\ \A j \in 1..Len(arrived) : arrived[j].index \in DOMAIN tool_calls_buffer
    /\ llmPc \in {"start", "stream1"} =>
          /\ started = <<>>
          /\ messages = <<>>
          /\ pendingCalls = <<>>

\* C13 witness: the fragments of index 0 arrived around a fragment of index
\* 1, and the call of index 0 was started with both of them.
C13_Witness ==
    /\ arrived = <<[index |-> 0, chunk |-> 1], [index |-> 1, chunk |-> 2],
                   [index |-> 0, chunk |-> 3]>>
    /\ tool_calls_buffer[0].arguments = <<1, 3>>
    /\ tool_calls_buffer[1].arguments = <<2>>
    /\ assistant_message_content # <<>>
    /\ started = <<0>>

\* ========================================================================
\* execute_tool, with the Narrator character's tool and handler
\* ========================================================================

\* Property names that occur in the argument objects considered.
Keys == {"event", "importance", "extra"}

\* A JSON value is written [kind, obj]: kind is "object", "array", "string",
\* "number" or "null" ("error" when the text does not parse); obj gives, for
\* an object, what each key holds: "str", "num", "null", or "absent".
JsonObject(event, importance, extra) ==
    [kind |-> "object",
     obj |-> [k \in Keys |-> IF k = "event" THEN event
                             ELSE IF k = "importance" THEN importance ELSE extra]]

JsonOther(kind) == [kind |-> kind, obj |-> [k \in Keys |-> "absent"]]

\* Raw argument strings an upstream model can produce.
RawArgs ==
    {"", "{\"event\": ", "[]", "\"text\"", "7", "null", "{}",
     "{\"event\": \"x\"}", "{\"event\": null}", "{\"event\": 7}",
     "{\"importance\": \"high\"}", "{\"event\": \"x\", \"importance\": \"high\"}",
     "{\"event\": \"x\", \"importance\": 7}", "{\"event\": \"x\", \"extra\": 1}"}

\* json.loads on those strings.
JsonLoads(raw) ==
    CASE raw = "" -> JsonOther("error")
      [] raw = "{\"event\": " -> JsonOther("error")
      [] raw = "[]" -> JsonOther("array")
      [] raw = "\"text\"" -> JsonOther("string")
      [] raw = "7" -> JsonOther("number")
      [] raw = "null" -> JsonOther("null")
      [] raw = "{}" -> JsonObject("absent", "absent", "absent")
      [] raw = "{\"event\": \"x\"}" -> JsonObject("str", "absent", "absent")
      [] raw = "{\"event\": null}" -> JsonObject("null", "absent", "absent")
      [] raw = "{\"event\": 7}" -> JsonObject("num", "absent", "absent")
      [] raw = "{\"importance\": \"high\"}" -> JsonObject("absent", "str", "absent")
      [] raw = "{\"event\": \"x\", \"importance\": \"high\"}" -> JsonObject("str", "str", "absent")
      [] raw = "{\"event\": \"x\", \"importance\": 7}" -> JsonObject("str", "num", "absent")
      [] raw = "{\"event\": \"x\", \"extra\": 1}" -> JsonObject("str", "absent", "num")

\* The Narrator's TOOLS: one function, log_story_event, whose parameters are
\* the string properties event (required) and importance (an enum).
NarratorTools == {"log_story_event"}
LogStoryEventSchema ==
    [properties |-> {"event", "importance"}, required |-> {"event"}]

\* _json_schema_type_to_python: both properties map to str.
FieldType(k) == "str"

\* Names execute_tool is called with: the declared tool, and one that the
\* character neither declares nor handles.
ToolNames == {"log_story_event", "lookup_weather"}

\* tool_validators as built by the character loader: one model per declared
\* tool; {} for a VLLMStream created without validators.
ToolValidators(withValidators) == IF withValidators THEN NarratorTools ELSE {}

\* The pydantic model of create_parameter_model: each property is typed
\* `field_type | None`, required properties have no default, the others
\* default to None; keys that are no property are ignored.
FieldValid(schema, obj, k) ==
    IF obj[k] = "absent" THEN k \notin schema.required
    ELSE obj[k] \in {FieldType(k), "null"}

ModelValid(schema, obj) == \A k \in schema.properties : FieldValid(schema, obj, k)

\* validated_input.model_dump(exclude_none=True)
ModelDump(schema, obj) ==
    [k \in Keys |-> IF k \in schema.properties /\ obj[k] \notin {"absent", "null"}
                       THEN obj[k] ELSE "absent"]

Returned(text, exc) == [kind |-> "returned", text |-> text, exc |-> exc]
Raised(exc) == [kind |-> "raised", text |-> "", exc |-> exc]

handle_tool_call_NoOp(tool_name, tool_input) ==
    IF tool_name = "log_story_event"
       THEN IF tool_input.kind # "object" THEN Raised("TypeError")
            ELSE IF tool_input.obj["event"] = "absent" THEN Raised("KeyError")
            ELSE IF tool_input.obj["importance"] \in {"num", "null"}
                    THEN Raised("AttributeError")
            ELSE Returned("result", "")
       ELSE Returned("result", "")

\* PromptGenerator.handle_tool_call of the Narrator.
handle_tool_call(tool_name, tool_input) ==
    IF tool_name = "log_story_event"
       THEN IF tool_input.kind # "object" THEN Raised("TypeError")
            ELSE IF tool_input.obj["event"] = "absent" THEN Raised("KeyError")
            ELSE IF tool_input.obj["importance"] \in {"num", "null"}
                    THEN Raised("AttributeError")   \* importance.upper()
            ELSE Returned("result", "")
       ELSE Raised("ValueError")

ErrorTypes == {"json_parse", "validation", "timeout", "execution"}

ToolStart ==
    /\ toolPc = "idle"
    /\ toolArgs = [tool_name |-> "", tool_input_json |-> "", validators |-> {}]
    /\ handlerInput = JsonOther("null")
    /\ handlerInvoked = FALSE
    /\ toolOutcome = Returned("", "")
    /\ CHARACTER_TOOL_ERRORS = [e \in ErrorTypes |-> 0]
    /\ CHARACTER_TOOL_CALLS = 0
    /\ abandoned = 0
    /\ toolCallsMade = 0

CountError(e) ==
    CHARACTER_TOOL_ERRORS' = [CHARACTER_TOOL_ERRORS EXCEPT ![e] = @ + 1]

\* execute_tool from its entry to its first await: the arguments are parsed
\* and validated; the call ends there, or the handler is started in a
\* thread and awaited under the 100 ms deadline.
ExecuteTool(tool_name, tool_input_json, withValidators) ==
    LET tool_validators == ToolValidators(withValidators)
        parsed == JsonLoads(tool_input_json)
        validated == tool_name \in tool_validators
        dumped == [kind |-> "object", obj |-> ModelDump(LogStoryEventSchema, parsed.obj)]
    IN
    /\ toolPc \in {"idle", "done"}
    /\ toolCallsMade < MaxToolCalls
    /\ toolCallsMade' = toolCallsMade + 1
    /\ toolArgs' = [tool_name |-> tool_name, tool_input_json |-> tool_input_json,
                    validators |-> tool_validators]
    /\ IF parsed.kind = "error"
          THEN /\ CountError("json_parse")
               /\ toolOutcome' = Returned("json_parse_error", "")
               /\ toolPc' = "done"
               /\ handlerInvoked' = FALSE
               /\ UNCHANGED handlerInput
       ELSE IF validated /\ parsed.kind # "object"
          THEN \* validator(**tool_input): TypeError, not caught
               /\ toolOutcome' = Raised("TypeError")
               /\ toolPc' = "done"
               /\ handlerInvoked' = FALSE
               /\ UNCHANGED <<handlerInput, CHARACTER_TOOL_ERRORS>>
       ELSE IF validated /\ ~ModelValid(LogStoryEventSchema, parsed.obj)
          THEN /\ CountError("validation")
               /\ toolOutcome' = Returned("validation_error", "")
               /\ toolPc' = "done"
               /\ handlerInvoked' = FALSE
               /\ UNCHANGED handlerInput
       ELSE /\ handlerInput' = IF validated THEN dumped ELSE parsed
            /\ handlerInvoked' = TRUE
            /\ toolPc' = "awaiting"
            /\ UNCHANGED <<toolOutcome, CHARACTER_TOOL_ERRORS>>
    /\ UNCHANGED <<CHARACTER_TOOL_CALLS, abandoned>>
    /\ UNCHANGED notTool

\* The handler thread ends within the deadline: its result is returned, or
\* its exception is turned into an error string.
HandlerEnds ==
    LET r == handle_tool_call(toolArgs.tool_name, handlerInput) IN
    /\ toolPc = "awaiting"
    /\ IF r.kind = "returned"
          THEN /\ CHARACTER_TOOL_CALLS' = CHARACTER_TOOL_CALLS + 1
               /\ toolOutcome' = Returned("result", "")
               /\ UNCHANGED CHARACTER_TOOL_ERRORS
          ELSE /\ CountError("execution")
               /\ toolOutcome' = Returned("execution_error", r.exc)
               /\ UNCHANGED CHARACTER_TOOL_CALLS
    /\ toolPc' = "done"
    /\ UNCHANGED <<toolArgs, handlerInput, handlerInvoked, abandoned, toolCallsMade>>
    /\ UNCHANGED notTool

\* The deadline fires first: asyncio.TimeoutError is caught, the thread is
\* left running.
DeadlineFires ==
    /\ toolPc = "awaiting"
    /\ CountError("timeout")
    /\ toolOutcome' = Returned("timeout_error", "")
    /\ abandoned' = abandoned + 1
    /\ toolPc' = "done"
    /\ UNCHANGED <<toolArgs, handlerInput, handlerInvoked, CHARACTER_TOOL_CALLS,
                   toolCallsMade>>
    /\ UNCHANGED notTool

\* A handler thread left running after its deadline ends; nobody awaits it.
AbandonedHandlerEnds ==
    /\ abandoned > 0
    /\ abandoned' = abandoned - 1
    /\ UNCHANGED <<toolPc, toolArgs, handlerInput, handlerInvoked, toolOutcome,
                   CHARACTER_TOOL_ERRORS, CHARACTER_TOOL_CALLS, toolCallsMade>>
    /\ UNCHANGED notTool

ToolInit == ToolStart /\ AdmitIdle /\ RouteIdle /\ FramesIdle /\ LlmIdle
    /\ ChatIdle /\ FnIdle /\ ReportIdle /\ EndIdle /\ PpIdle
    /\ CmIdle

ToolNext ==
    \/ \E tool_name \in ToolNames, tool_input_json \in RawArgs, withValidators \in BOOLEAN :
          ExecuteTool(tool_name, tool_input_json, withValidators)
    \/ HandlerEnds
    \/ DeadlineFires
    \/ AbandonedHandlerEnds

SpecTool == ToolInit /\ [][ToolNext]_vars

\* ------------------------------------------------------------------------
\* Claims on execute_tool
\* ------------------------------------------------------------------------

\* C9 (as claimed): every call of execute_tool ends by returning a string.
C9_ExecuteToolNeverRaises ==
    toolPc = "done" => toolOutcome.kind = "returned"

\* C10 (as claimed): a call naming a tool the handler does not know ends by
\* raising to the caller of execute_tool.
C10_UnknownToolRaises ==
    (toolPc = "done" /\ toolArgs.tool_name \notin NarratorTools) =>
        toolOutcome.kind = "raised"

\* C10 (amended): a call that reaches the handler with a tool name the
\* handler does not know returns a string: the error string made of the
\* handler's ValueError, or the timeout string if the deadline fired first;
\* it is never the result of a tool and nothing is raised to the caller.
C10_UnknownToolReturnsError ==
    (toolPc = "done" /\ handlerInvoked /\ toolArgs.tool_name \notin NarratorTools) =>
        /\ toolOutcome.kind = "returned"
        /\ \/ toolOutcome.text = "execution_error" /\ toolOutcome.exc = "ValueError"
           \/ toolOutcome.text = "timeout_error"

\* C10 witness: an unknown tool name reached the handler and execute_tool
\* returned the error string of its ValueError.
C10_Witness ==
    /\ toolPc = "done"
    /\ handlerInvoked
    /\ toolArgs.tool_name \notin NarratorTools
    /\ toolOutcome = Returned("execution_error", "ValueError")
    /\ CHARACTER_TOOL_ERRORS["execution"] = 1

\* C39 (as claimed): whenever the handler of a tool with a registered
\* validator is invoked, the argument object it receives holds every
\* property the tool's schema lists as required.
C39_RequiredPropertiesReachHandler ==
    (handlerInvoked /\ toolArgs.tool_name \in toolArgs.validators) =>
        \A k \in LogStoryEventSchema.required : handlerInput.obj[k] # "absent"

\* ========================================================================
\* execute_tool next to receive_loop: one session, one event loop
\* ========================================================================

\* SpecToolSession runs execute_tool and the session's receive_loop side by
\* side.  The coroutines share the event loop thread: a coroutine step runs
\* only while no other code holds that thread.

HandlerRunsInThread_Inline == FALSE

\* `asyncio.to_thread(prompt_generator.handle_tool_call, tool_name, tool_input)`:
\* the handler runs on a worker thread, execute_tool only awaits it.
HandlerRunsInThread == TRUE

\* The event loop thread is free to run another coroutine of the session.
LoopFree == HandlerRunsInThread \/ toolPc # "awaiting"

\* A handler invocation is running: awaited inside its deadline, or left
\* running after it.
HandlerExecuting == toolPc = "awaiting" \/ abandoned > 0

\* Raw arguments the tool calls of this specification carry.
SessionToolArgs == {"{}", "{\"event\": \"x\"}"}

\* receive_loop handles one inbound frame, when the event loop runs it.
SessionRecvFrame(f) ==
    /\ LoopFree
    /\ RecvFrame(f)

SessionInit == ToolStart /\ FramesStart /\ AdmitIdle /\ RouteIdle /\ LlmIdle
    /\ ChatIdle /\ FnIdle /\ ReportIdle /\ EndIdle /\ PpIdle
    /\ CmIdle

SessionNext ==
    \/ \E tool_name \in ToolNames, tool_input_json \in SessionToolArgs :
          ExecuteTool(tool_name, tool_input_json, TRUE)
    \/ HandlerEnds
    \/ DeadlineFires
    \/ AbandonedHandlerEnds
    \/ \E f \in FrameKinds : SessionRecvFrame(f)
    \/ ClientDisconnect
    \/ RecvDisconnected

SpecToolSession == SessionInit /\ [][SessionNext]_vars

CharacterNames == {"c1", "c2"}
SystemPrompts == {"p1", "p2"}
\* Contents a stored message can have, and the deltas SpecChat feeds in (a
\* blank delta takes the same branches of add_chat_message_delta as a
\* non-blank one).
ContentKinds == {"empty", "blank", "text"}
DeltaKinds == {"empty", "text"}
DeltaRoles == {"user", "assistant"}

\* `not s or not s.strip()`
IsBlankArg(s) == s = ""

\* content + delta (with the separating space, where one is inserted).
Concat(content, delta) ==
    IF content = "empty" THEN delta
    ELSE IF delta = "empty" THEN content
    ELSE IF content = "text" \/ delta = "text" THEN "text"
    ELSE "blank"

\* _default_system_prompt()
DefaultHistory == <<[role |-> "system", content |-> "default", id |-> 0]>>

\* CharacterHistory(character_name, system_prompt, created_at)
CharacterHistory(system_prompt, created_at) ==
    [messages |-> <<[role |-> "system", content |-> system_prompt, id |-> created_at]>>,
     created_at |-> created_at,
     last_accessed |-> created_at]

get_current_history(histories, current) ==
    IF current = "None" \/ current \notin DOMAIN histories
       THEN DefaultHistory
       ELSE histories[current].messages

\* Chatbot.get_system_prompt
get_system_prompt(histories, current) ==
    get_current_history(histories, current)[1].content

\* The Python slice s[start:].
PySliceFrom(s, start) ==
    LET n == Len(s)
        from == IF start < 0
                   THEN (IF n + start < 0 THEN 0 ELSE n + start)
                   ELSE (IF start > n THEN n ELSE start)
    IN  SubSeq(s, from + 1, n)

truncate_if_needed_KeepsNewest(msgs, max_messages) ==
    IF Len(msgs) <= max_messages
       THEN [messages |-> msgs, removed |-> 0]
       ELSE [messages |-> PySliceFrom(msgs, 0 - max_messages),
             removed |-> Len(msgs) - max_messages]

\* CharacterHistory.truncate_if_needed: the messages it leaves and the
\* number it returns.
truncate_if_needed(msgs, max_messages) ==
    IF Len(msgs) <= max_messages
       THEN [messages |-> msgs, removed |-> 0]
       ELSE [messages |-> <<msgs[1]>> \o PySliceFrom(msgs, 1 - max_messages),
             removed |-> Len(msgs) - max_messages]

conversation_state_BlankSpeaks(current_history) ==
    IF current_history = <<>> THEN "waiting_for_user"
    ELSE LET last_message == current_history[Len(current_history)] IN
         IF last_message.role = "assistant" THEN "bot_speaking"
         ELSE IF last_message.role = "user" THEN "user_speaking"
         ELSE IF last_message.role = "system" THEN "waiting_for_user"
         ELSE "RuntimeError"

\* Chatbot.conversation_state on the list get_current_history() returned.
conversation_state(current_history) ==
    IF current_history = <<>> THEN "waiting_for_user"
    ELSE LET last_message == current_history[Len(current_history)] IN
         IF last_message.role = "assistant" THEN "bot_speaking"
         ELSE IF last_message.role = "user"
            THEN (IF last_message.content = "text"
                     THEN "user_speaking" ELSE "waiting_for_user")
         ELSE IF last_message.role = "system" THEN "waiting_for_user"
         ELSE "RuntimeError"

ChatStart ==
    /\ character_histories = <<>>
    /\ current_character = "None"
    /\ chat_prompt_generator = FALSE
    /\ lastCall = [op |-> "__init__"]
    /\ opCount = 0

SwitchedHistories_Reseed(histories, character_name, system_prompt, current_time) ==
    IF character_name \notin DOMAIN histories
       THEN [c \in (DOMAIN histories) \cup {character_name} |->
                IF c = character_name
                   THEN CharacterHistory(system_prompt, current_time)
                   ELSE histories[c]]
       ELSE [histories EXCEPT ![character_name].last_accessed = current_time,
                              ![character_name].messages[1].content = system_prompt]

SwitchedHistories_Recreate(histories, character_name, system_prompt, current_time) ==
    [c \in (DOMAIN histories) \cup {character_name} |->
        IF c = character_name
           THEN CharacterHistory(system_prompt, current_time)
           ELSE histories[c]]

\* character_histories after the if/else of switch_character.
SwitchedHistories(histories, character_name, system_prompt, current_time) ==
    IF character_name \notin DOMAIN histories
       THEN [c \in (DOMAIN histories) \cup {character_name} |->
                IF c = character_name
                   THEN CharacterHistory(system_prompt, current_time)
                   ELSE histories[c]]
       ELSE [histories EXCEPT ![character_name].last_accessed = current_time]

\* Chatbot.switch_character
SwitchCharacter(character_name, system_prompt) ==
    /\ opCount < MaxOps
    /\ opCount' = opCount + 1
    /\ lastCall' = [op |-> "switch_character", character_name |-> character_name,
                    system_prompt |-> system_prompt,
                    existed |-> character_name \in DOMAIN character_histories]
    /\ IF IsBlankArg(character_name) \/ IsBlankArg(system_prompt)
          THEN UNCHANGED <<character_histories, current_character>>
          ELSE /\ character_histories' =
                     SwitchedHistories(character_histories, character_name,
                                       system_prompt, opCount + 1)
               /\ current_character' = character_name
    /\ UNCHANGED chat_prompt_generator
    /\ UNCHANGED notChat

IsStale_Never(length, generating_message_i) == FALSE

IsStale_OffByOne(length, generating_message_i) ==
    generating_message_i # -1 /\ length > generating_message_i + 1

\* `generating_message_i is not None and len(current_history) > generating_message_i`
\* (-1 stands for None).
IsStale(length, generating_message_i) ==
    generating_message_i # -1 /\ length > generating_message_i

StartsNewMessage_Always(last_role, role) == TRUE

\* `current_history[-1]["role"] != role`
StartsNewMessage(last_role, role) == last_role # role

IsNewOnExtend_Never(last_message) == FALSE

\* `is_new_message = last_message == ""`
IsNewOnExtend(last_message) == last_message = "empty"

\* Chatbot.add_chat_message_delta
AddChatMessageDelta(delta, role, generating_message_i) ==
    LET current_history == get_current_history(character_histories, current_character)
        stored == current_character # "None" /\ current_character \in DOMAIN character_histories
        last == current_history[Len(current_history)]
        starts == StartsNewMessage(last.role, role)
        after == IF starts
                    THEN Append(current_history,
                                [role |-> role, content |-> delta, id |-> opCount + 1])
                    ELSE [current_history EXCEPT ![Len(current_history)].content =
                                                     Concat(@, delta)]
        is_new_message == IF starts THEN TRUE ELSE IsNewOnExtend(last.content)
    IN
    /\ opCount < MaxOps
    /\ generating_message_i \in {-1, Len(current_history) - 1, Len(current_history)}
    /\ opCount' = opCount + 1
    /\ IF IsStale(Len(current_history), generating_message_i)
          THEN /\ lastCall' = [op |-> "add_chat_message_delta", delta |-> delta,
                               role |-> role,
                               generating_message_i |-> generating_message_i,
                               ret |-> FALSE]
               /\ UNCHANGED character_histories
          ELSE /\ lastCall' = [op |-> "add_chat_message_delta", delta |-> delta,
                               role |-> role,
                               generating_message_i |-> generating_message_i,
                               ret |-> is_new_message]
               /\ IF stored
                     THEN character_histories' =
                            [character_histories EXCEPT ![current_character].messages =
                                truncate_if_needed(after, MaxMessagesPerCharacter).messages]
                     ELSE UNCHANGED character_histories
    /\ UNCHANGED <<current_character, chat_prompt_generator>>
    /\ UNCHANGED notChat

\* Chatbot.set_prompt_generator: make_system_prompt() is run once and its
\* result stored as the content of message[0] of the current character.
SetPromptGenerator ==
    /\ opCount < MaxOps
    /\ opCount' = opCount + 1
    /\ lastCall' = [op |-> "set_prompt_generator"]
    /\ IF current_character # "None" /\ current_character \in DOMAIN character_histories
          THEN character_histories' =
                 [character_histories EXCEPT
                     ![current_character].messages[1].content = "generated"]
          ELSE UNCHANGED character_histories
    /\ chat_prompt_generator' = TRUE
    /\ UNCHANGED current_character
    /\ UNCHANGED notChat

\* Chatbot.clear_character_history
ClearCharacterHistory(character_name) ==
    /\ opCount < MaxOps
    /\ opCount' = opCount + 1
    /\ lastCall' = [op |-> "clear_character_history", character_name |-> character_name]
    /\ IF character_name \notin DOMAIN character_histories
          THEN UNCHANGED <<character_histories, current_character>>
          ELSE /\ current_character' =
                     IF current_character = character_name THEN "None"
                     ELSE current_character
               /\ character_histories' =
                     [c \in (DOMAIN character_histories) \ {character_name} |->
                         character_histories[c]]
    /\ UNCHANGED chat_prompt_generator
    /\ UNCHANGED notChat

\* Chatbot.clear_all_histories
ClearAllHistories ==
    /\ opCount < MaxOps
    /\ opCount' = opCount + 1
    /\ lastCall' = [op |-> "clear_all_histories"]
    /\ character_histories' = <<>>
    /\ current_character' = "None"
    /\ UNCHANGED chat_prompt_generator
    /\ UNCHANGED notChat

ChatInit ==
    /\ ChatStart /\ FnIdle /\ ReportIdle /\ EndIdle /\ PpIdle
    /\ AdmitIdle /\ RouteIdle /\ FramesIdle /\ LlmIdle /\ ToolIdle
    /\ CmIdle

ChatNext ==
    \/ \E character_name \in CharacterNames \cup {""}, system_prompt \in SystemPrompts \cup {""} :
          SwitchCharacter(character_name, system_prompt)
    \/ \E delta \in DeltaKinds, role \in DeltaRoles, i \in -1..(MaxMessagesPerCharacter + 1) :
          AddChatMessageDelta(delta, role, i)
    \/ SetPromptGenerator
    \/ \E character_name \in CharacterNames : ClearCharacterHistory(character_name)
    \/ ClearAllHistories

SpecChat == ChatInit /\ [][ChatNext]_vars

\* ------------------------------------------------------------------------
\* Claims on the Chatbot
\* ------------------------------------------------------------------------

\* The step is a call of add_chat_message_delta.
AddStep ==
    /\ opCount' = opCount + 1
    /\ lastCall'.op = "add_chat_message_delta"

\* The message created by the call that just ended, if it is in a history.
FreshlyAppended(histories, t) ==
    \E c \in DOMAIN histories :
        \E j \in 1..Len(histories[c].messages) : histories[c].messages[j].id = t

\* A truncation took place in history c: it is at the cap and messages
\* after message[0] are gone.
Truncated(c) ==
    /\ c \in DOMAIN character_histories
    /\ Len(character_histories[c].messages) = MaxMessagesPerCharacter
    /\ character_histories[c].messages[2].id > character_histories[c].messages[1].id + 1
    /\ \A j \in 2..MaxMessagesPerCharacter :
          character_histories[c].messages[j].role \in DeltaRoles

\* C14: no two adjacent messages of a stored history have the same role.
C14_NoAdjacentSameRole ==
    \A c \in DOMAIN character_histories :
        \A j \in 1..(Len(character_histories[c].messages) - 1) :
            character_histories[c].messages[j].role #
                character_histories[c].messages[j + 1].role

\* C14 witness: right after creation the history of the active character
\* was fed deltas until add_chat_message_delta truncated it.
C14_Witness ==
    /\ lastCall.op = "add_chat_message_delta"
    /\ opCount = MaxMessagesPerCharacter + 1
    /\ Truncated(current_character)

\* C15 (as claimed): a call of add_chat_message_delta returns true exactly
\* when it appended a new message to a history.
C15_TrueIffAppended ==
    [][AddStep => (lastCall'.ret <=> FreshlyAppended(character_histories', opCount'))]_vars

\* C15 (amended): a call returns true exactly when it was not rejected and
\* the last message of the list it works on (the current history, or the
\* default history when no character is active) has another role or has
\* the empty string as content; a message is appended to a history exactly
\* when the call was not rejected, a character is active and the last role
\* differs, and then the call returns true.
C15_TrueIffStartedOrEmpty ==
    [][AddStep =>
          LET current_history == get_current_history(character_histories, current_character)
              last == current_history[Len(current_history)]
              i == lastCall'.generating_message_i
              rejected == i # -1 /\ Len(current_history) > i
              active == current_character \in DOMAIN character_histories
              appended == FreshlyAppended(character_histories', opCount')
          IN  /\ lastCall'.ret <=>
                    (~rejected /\ (last.role # lastCall'.role \/ last.content = "empty"))
              /\ appended <=> (~rejected /\ active /\ last.role # lastCall'.role)
              /\ appended => lastCall'.ret]_vars

\* C15 witness: the call returned true although it extended the last
\* message of the active history, which was empty, and appended nothing.
C15_Witness ==
    /\ lastCall.op = "add_chat_message_delta"
    /\ lastCall.ret
    /\ current_character \in DOMAIN character_histories
    /\ lastCall.delta = "text"
    /\ LET h == character_histories[current_character].messages
       IN  /\ h[Len(h)].id < opCount
           /\ h[Len(h)].role = lastCall.role
           /\ h[Len(h)].content = "text"

\* C16: a call that supplies generating_message_i while the current history
\* has more messages than that index returns false and changes nothing.
C16_StaleDeltaRejected ==
    [][(AddStep /\ lastCall'.generating_message_i # -1
          /\ Len(get_current_history(character_histories, current_character))
                > lastCall'.generating_message_i) =>
            /\ lastCall'.ret = FALSE
            /\ character_histories' = character_histories
            /\ current_character' = current_character]_vars

\* C16 witness: the active history ends with a message of another role at
\* the index the producer supplied; its delta was rejected.
C16_Witness ==
    /\ lastCall.op = "add_chat_message_delta"
    /\ lastCall.generating_message_i # -1
    /\ lastCall.ret = FALSE
    /\ current_character \in DOMAIN character_histories
    /\ LET h == character_histories[current_character].messages
       IN  /\ Len(h) = lastCall.generating_message_i + 1
           /\ Len(h) >= 3
           /\ h[Len(h)].role # lastCall.role
           /\ h[Len(h)].id < opCount

\* C18: every stored CharacterHistory is non-empty and starts with a system
\* message.
C18_SystemMessageFirst ==
    \A c \in DOMAIN character_histories :
        /\ Len(character_histories[c].messages) >= 1
        /\ character_histories[c].messages[1].role = "system"

\* C18 witness: the prompt generator was set and the history of the active
\* character was truncated; its first message is the generated prompt.
C18_Witness ==
    /\ chat_prompt_generator
    /\ Truncated(current_character)
    /\ character_histories[current_character].messages[1].content = "generated"

\* C20: a switch_character call (both arguments non-blank) for a name that
\* has a history keeps every history's messages and creation time, sets the
\* active pointer and refreshes only that name's last_accessed; and switching
\* twice gives what switching once gives, last_accessed apart.
C20_SwitchKeepsMessages ==
    /\ [][(opCount' = opCount + 1 /\ lastCall'.op = "switch_character"
             /\ lastCall'.existed
             /\ lastCall'.character_name # "" /\ lastCall'.system_prompt # "") =>
            /\ DOMAIN character_histories' = DOMAIN character_histories
            /\ \A c \in DOMAIN character_histories :
                  /\ character_histories'[c].messages = character_histories[c].messages
                  /\ character_histories'[c].created_at = character_histories[c].created_at
                  /\ c # lastCall'.character_name =>
                        character_histories'[c] = character_histories[c]
            /\ character_histories'[lastCall'.character_name].last_accessed = opCount'
            /\ current_character' = lastCall'.character_name
            /\ chat_prompt_generator' = chat_prompt_generator]_vars
    /\ [](\A name \in DOMAIN character_histories : \A p, q \in SystemPrompts :
            LET once == SwitchedHistories(character_histories, name, p, opCount + 1)
                twice == SwitchedHistories(once, name, q, opCount + 2)
            IN  /\ DOMAIN twice = DOMAIN once
                /\ \A c \in DOMAIN once :
                      [twice[c] EXCEPT !.last_accessed = 0] =
                          [once[c] EXCEPT !.last_accessed = 0])

\* C20 witness: the active pointer was switched to a character that already
\* had messages, with a prompt other than the stored one.
C20_Witness ==
    /\ lastCall.op = "switch_character"
    /\ lastCall.existed
    /\ lastCall.system_prompt # ""
    /\ current_character = lastCall.character_name
    /\ current_character \in DOMAIN character_histories
    /\ Len(character_histories[current_character].messages) >= 2
    /\ character_histories[current_character].messages[1].content # lastCall.system_prompt
    /\ character_histories[current_character].last_accessed = opCount

\* C21: whatever the operation, the messages of a character that is not
\* the active one stay as they are for as long as its history exists; a
\* history that exists stops to exist only in a clear_character_history call
\* for its name or a clear_all_histories call; a switch_character call never
\* changes the messages of an existing history, so a character switched back
\* to has the messages it had when it was left.
C21_HistoriesIsolated ==
    [][\A c \in DOMAIN character_histories :
          /\ c \notin DOMAIN character_histories' =>
                \/ lastCall'.op = "clear_all_histories"
                \/ /\ lastCall'.op = "clear_character_history"
                   /\ lastCall'.character_name = c
          /\ (c \in DOMAIN character_histories' /\ c # current_character) =>
                character_histories'[c].messages = character_histories[c].messages
          /\ (c \in DOMAIN character_histories' /\ lastCall'.op = "switch_character") =>
                character_histories'[c].messages = character_histories[c].messages]_vars

\* C21 witness: c1 was left with a message of its own, c2 was created and
\* given a message, and c1 was switched back to: it holds its system prompt
\* and the message made before c2 existed.
C21_Witness ==
    /\ lastCall.op = "switch_character"
    /\ lastCall.existed
    /\ current_character = "c1"
    /\ DOMAIN character_histories = {"c1", "c2"}
    /\ Len(character_histories["c1"].messages) = 2
    /\ Len(character_histories["c2"].messages) = 2
    /\ character_histories["c1"].messages[2].id < character_histories["c2"].created_at
    /\ character_histories["c2"].messages[2].id < opCount
    /\ character_histories["c1"].last_accessed = opCount

\* C37 (as claimed): with no active character a call of
\* add_chat_message_delta leaves character_histories and current_character
\* as they were, conversation_state() is waiting_for_user after it, and the
\* call returns true.
C37_NoCharacterStoresNothing ==
    [][(AddStep /\ current_character = "None") =>
          /\ character_histories' = character_histories
          /\ current_character' = current_character
          /\ conversation_state(get_current_history(character_histories',
                                                    current_character')) = "waiting_for_user"
          /\ lastCall'.ret = TRUE]_vars

\* C37 (amended): the same, but the call returns true exactly when
\* generating_message_i is not supplied or is at least 1, the length of the
\* default history; a call that supplies 0 returns false.
C37_NoCharacterStoresNothingIndexed ==
    [][(AddStep /\ current_character = "None") =>
          /\ character_histories' = character_histories
          /\ current_character' = current_character
          /\ conversation_state(get_current_history(character_histories',
                                                    current_character')) = "waiting_for_user"
          /\ lastCall'.ret <=>
                (lastCall'.generating_message_i = -1
                    \/ lastCall'.generating_message_i >= 1)]_vars

\* C37 witness: the active character's history was cleared while another
\* history exists; an assistant delta then came with index 0, was answered
\* false and stored nowhere.
C37_Witness ==
    /\ lastCall.op = "add_chat_message_delta"
    /\ lastCall.role = "assistant"
    /\ lastCall.delta = "text"
    /\ lastCall.generating_message_i = 0
    /\ lastCall.ret = FALSE
    /\ current_character = "None"
    /\ DOMAIN character_histories = {"c2"}
    /\ Len(character_histories["c2"].messages) = 1

\* C24 (as claimed): right after set_prompt_generator, get_system_prompt()
\* returns the string make_system_prompt() produced, whether or not a
\* character was active; and the generated string enters a history in no
\* other operation, so the generator is not run again later.
C24_GeneratedPromptFrozen ==
    /\ [](lastCall.op = "set_prompt_generator" =>
            get_system_prompt(character_histories, current_character) = "generated")
    /\ [][(\E c \in DOMAIN character_histories' :
              /\ character_histories'[c].messages[1].content = "generated"
              /\ (c \notin DOMAIN character_histories
                    \/ character_histories[c].messages[1].content # "generated")) =>
            lastCall'.op = "set_prompt_generator"]_vars

\* ========================================================================
\* _report_websocket_exception
\* ========================================================================

\* An exception is [type, service, text]: service is the `service` attribute
\* of MissingServiceAtCapacity and MissingServiceTimeout, text what str()
\* and repr() show of the others.  A string the code builds with an f-string
\* is the sequence of its pieces.

Services == {"stt", "tts"}
UnclassifiedTypes == {"RuntimeError", "KeyError"}
ExceptionTexts == {"boom", "secret"}

MissingServiceAtCapacity(service) ==
    [type |-> "MissingServiceAtCapacity", service |-> service, text |-> ""]
MissingServiceTimeout(service) ==
    [type |-> "MissingServiceTimeout", service |-> service, text |-> ""]
WebSocketClosedError ==
    [type |-> "WebSocketClosedError", service |-> "", text |-> ""]
Unclassified(type, text) == [type |-> type, service |-> "", text |-> text]

ExceptionValues ==
    {MissingServiceAtCapacity(sv) : sv \in Services}
        \cup {MissingServiceTimeout(sv) : sv \in Services}
        \cup {WebSocketClosedError}
        \cup {Unclassified(ty, tx) : ty \in UnclassifiedTypes, tx \in ExceptionTexts}

\* `error_message = None`
NoMessage == <<>>

InternalErrorMessage == <<"Internal server error :( Complain to Kyutai">>

ErrorMessageFor_Leaky(exc, error_message) ==
    IF exc.type = "MissingServiceAtCapacity"
       THEN <<"Too many people are connected to service '", exc.service,
              "'. Please try again later.">>
    ELSE IF exc.type = "MissingServiceTimeout"
       THEN <<"Service '", exc.service, "' timed out. Please try again later.">>
    ELSE IF exc.type = "WebSocketClosedError"
       THEN error_message
    ELSE <<"Internal server error: ", exc.type, exc.text>>

\* One iteration of `for exc in exceptions`: error_message after it.
ErrorMessageFor(exc, error_message) ==
    IF exc.type = "MissingServiceAtCapacity"
       THEN <<"Too many people are connected to service '", exc.service,
              "'. Please try again later.">>
    ELSE IF exc.type = "MissingServiceTimeout"
       THEN <<"Service '", exc.service, "' timed out. Please try again later.">>
    ELSE IF exc.type = "WebSocketClosedError"
       THEN error_message
    ELSE InternalErrorMessage

RECURSIVE ErrorMessageAfter(_, _)
\* error_message after the loop over exceptions.
ErrorMessageAfter(exceptions, error_message) ==
    IF exceptions = <<>> THEN error_message
    ELSE ErrorMessageAfter(Tail(exceptions),
                           ErrorMessageFor(Head(exceptions), error_message))

\* `exc.exceptions if isinstance(exc, ExceptionGroup) else [exc]`
ExceptionsOf(exc) == exc.exceptions

\* make_ora_error(type, message): the Error event that carries the message.
make_ora_error(type, message) ==
    [frame |-> "text", event |-> "error", type |-> type, code |-> 0, message |-> message]

\* websocket.close(code, reason)
CloseFrame(code, reason) ==
    [frame |-> "close", event |-> "", type |-> "", code |-> code, message |-> reason]

\* What _report_websocket_exception puts on the wire.  With the transport
\* disconnected send_text and close raise and nothing goes out.
WireOutput(exceptions, connected) ==
    LET error_message == ErrorMessageAfter(exceptions, NoMessage) IN
    IF error_message = NoMessage \/ ~connected THEN <<>>
    ELSE <<make_ora_error("fatal", error_message), CloseFrame(1011, error_message)>>

ReportStart ==
    /\ rpPc = "input"
    /\ rpExc \in
         {[group |-> FALSE, exceptions |-> <<e>>] : e \in ExceptionValues}
            \cup UNION {{[group |-> TRUE, exceptions |-> es] :
                            es \in [1..n -> ExceptionValues]} : n \in 1..MaxGroup}
    /\ rpConnected \in BOOLEAN
    /\ rpWire = <<>>

\* The whole of _report_websocket_exception.
ReportStep ==
    /\ rpPc = "input"
    /\ rpPc' = "done"
    /\ rpWire' = WireOutput(ExceptionsOf(rpExc), rpConnected)
    /\ UNCHANGED <<rpExc, rpConnected>>

ReportException ==
    /\ ReportStep
    /\ UNCHANGED notReport

ReportInit ==
    /\ ReportStart /\ EndIdle /\ PpIdle /\ ChatIdle /\ FnIdle
    /\ AdmitIdle /\ RouteIdle /\ FramesIdle /\ LlmIdle /\ ToolIdle
    /\ CmIdle

ReportNext == ReportException

SpecReport == ReportInit /\ [][ReportNext]_vars

\* ------------------------------------------------------------------------
\* Claims on _report_websocket_exception
\* ------------------------------------------------------------------------

IsServiceMiss(exc) == exc.type \in {"MissingServiceAtCapacity", "MissingServiceTimeout"}
IsUnclassified(exc) == exc.type \in UnclassifiedTypes

\* The message that names the service of exc.
ServiceMessage(exc) ==
    IF exc.type = "MissingServiceAtCapacity"
       THEN <<"Too many people are connected to service '", exc.service,
              "'. Please try again later.">>
       ELSE <<"Service '", exc.service, "' timed out. Please try again later.">>

\* The exceptions of es with the type and text of the unclassified ones
\* replaced by fixed values.
Scrubbed(es) ==
    [i \in 1..Len(es) |->
        IF IsUnclassified(es[i]) THEN Unclassified("RuntimeError", "boom") ELSE es[i]]

\* C29 (as claimed): with the transport connected, a failure that holds a
\* capacity or timeout exception puts on the wire exactly one fatal error
\* event whose message names the service of such an exception of the
\* failure, then the close frame, whatever else the failure holds and in
\* whatever order; a failure of transport-closed exceptions only puts
\* nothing on the wire.
C29_ServiceMissReported ==
    (rpPc = "done" /\ rpConnected) =>
        LET es == ExceptionsOf(rpExc) IN
        /\ (\E i \in 1..Len(es) : IsServiceMiss(es[i])) =>
              \E i \in 1..Len(es) :
                  /\ IsServiceMiss(es[i])
                  /\ rpWire = <<make_ora_error("fatal", ServiceMessage(es[i])),
                                CloseFrame(1011, ServiceMessage(es[i]))>>
        /\ (\A i \in 1..Len(es) : es[i] = WebSocketClosedError) => rpWire = <<>>

\* C30: with the transport connected, a failure that holds an unclassified
\* exception and no capacity or timeout exception puts on the wire the
\* fatal error event with the fixed generic message, then the close frame
\* with that message as reason, and nothing else; and whatever the failure,
\* the wire output is the one of the failure with the type and text of its
\* unclassified exceptions replaced.
C30_GenericMessageOnly ==
    rpPc = "done" =>
        LET es == ExceptionsOf(rpExc) IN
        /\ (rpConnected /\ (\E i \in 1..Len(es) : IsUnclassified(es[i]))
              /\ ~(\E i \in 1..Len(es) : IsServiceMiss(es[i]))) =>
              rpWire = <<make_ora_error("fatal", InternalErrorMessage),
                         CloseFrame(1011, InternalErrorMessage)>>
        /\ rpWire = WireOutput(Scrubbed(es), rpConnected)

\* C30 witness: the failure held a transport-closed exception and a KeyError
\* with the text "secret"; the generic message went out.
C30_Witness ==
    /\ rpPc = "done"
    /\ rpConnected
    /\ ExceptionsOf(rpExc) = <<WebSocketClosedError, Unclassified("KeyError", "secret")>>
    /\ rpWire = <<make_ora_error("fatal", InternalErrorMessage),
                  CloseFrame(1011, InternalErrorMessage)>>

\* ========================================================================
\* The end of a session: task group, cleanup and report
\* ========================================================================

\* SpecSessionEnd runs receive_loop and emit_loop of one session inside the
\* task group of _run_route, with handler.cleanup() and
\* _report_websocket_exception after it.  quest_manager.wait() and
\* debug_running_tasks() run until the group cancels them.

OtherTasks == {"quest_manager_wait", "debug_running_tasks"}

\* Frames the client sends in SpecSessionEnd: one that is acknowledged and
\* one that ends receive_loop with an exception.
EndFrames == {"session.update", "append_anonymized"}

EndStart ==
    /\ sePc = "tasks"
    /\ seOthers = [t \in OtherTasks |-> "running"]
    /\ seCleanup = 0

\* A task of the group ended with an exception.
AnyTaskFailed == recvPc \in {"closed", "failed"} \/ emitPc = "closed"

\* The exception a loop ended with, if any.
RecvException ==
    IF recvPc = "closed" THEN <<WebSocketClosedError>>
    ELSE IF recvPc = "failed" THEN <<Unclassified("AttributeError", "ora")>>
    ELSE <<>>

EmitException ==
    IF emitPc = "closed" THEN <<WebSocketClosedError>> ELSE <<>>

\* The task group cancels a task that is still running once a task of the
\* group has ended with an exception.
EndOtherCancelled(t) ==
    /\ sePc = "tasks"
    /\ AnyTaskFailed
    /\ seOthers[t] = "running"
    /\ seOthers' = [seOthers EXCEPT ![t] = "cancelled"]
    /\ UNCHANGED <<sePc, seCleanup>>
    /\ UNCHANGED notEnd

\* Every task has ended: the TaskGroup raises the ExceptionGroup of the
\* exceptions its tasks ended with, in the order they ended; the finally
\* block of _run_route calls handler.cleanup(); websocket_route catches the
\* group and hands it to _report_websocket_exception.
EndGroupExit ==
    /\ sePc = "tasks"
    /\ recvPc \in {"closed", "failed", "cancelled"}
    /\ emitPc \in {"returned", "closed", "cancelled"}
    /\ \A t \in OtherTasks : seOthers[t] = "cancelled"
    /\ seCleanup' = seCleanup + 1
    /\ sePc' = "report"
    /\ rpPc' = "input"
    /\ \E es \in {RecvException \o EmitException, EmitException \o RecvException} :
          rpExc' = [group |-> TRUE, exceptions |-> es]
    /\ rpConnected' = wsOpen
    /\ UNCHANGED <<seOthers, rpWire>>
    /\ UNCHANGED notReportEnd

\* _report_websocket_exception, then the finally block of websocket_route:
\* the session is over.
EndReport ==
    /\ sePc = "report"
    /\ ReportStep
    /\ sePc' = "closed"
    /\ UNCHANGED <<seOthers, seCleanup>>
    /\ UNCHANGED notReportEnd

EndInit ==
    /\ FramesStart /\ EndStart /\ ReportIdle /\ PpIdle /\ ChatIdle /\ FnIdle
    /\ AdmitIdle /\ RouteIdle /\ LlmIdle /\ ToolIdle
    /\ CmIdle

EndNext ==
    \/ \E f \in EndFrames : RecvFrame(f)
    \/ RecvDisconnected
    \/ ClientDisconnect
    \/ EmitDisconnected
    \/ EmitFromQueue
    \/ EmitPoll
    \/ \E item \in HandlerItems : EmitHandlerItem(item)
    \/ LoopCancelled
    \/ \E t \in OtherTasks : EndOtherCancelled(t)
    \/ EndGroupExit
    \/ EndReport

\* The event loop runs every task that is ready: a receive on a closed
\* transport raises, a cancelled task ends at its await, the group exits
\* once its tasks have ended and the report runs to its end.  Nothing
\* obliges the client to send or to disconnect, nor the handler to answer.
EndFairness ==
    /\ WF_vars(RecvDisconnected)
    /\ WF_vars(LoopCancelled)
    /\ WF_vars(\E t \in OtherTasks : EndOtherCancelled(t))
    /\ WF_vars(EndGroupExit)
    /\ WF_vars(EndReport)

SpecSessionEnd == EndInit /\ [][EndNext]_vars /\ EndFairness

\* C28: the step in which emit_loop takes the close-stream sentinel closes
\* the transport; once emit_loop has returned that way nothing more is
\* sent; receive_loop, if it still runs, ends with the transport-closed
\* condition; the session reaches its end with handler.cleanup() called
\* once; and the report put nothing on the wire.
C28_CloseStreamUnwinds ==
    /\ [][(emitPc = "polling" /\ emitPc' = "returned") => ~wsOpen']_vars
    /\ [][emitPc = "returned" => sent' = sent]_vars
    /\ (emitPc = "returned" /\ recvPc = "running") ~> (recvPc = "closed")
    /\ (emitPc = "returned") ~> (sePc = "closed" /\ seCleanup = 1)
    /\ []((emitPc = "returned" /\ sePc = "closed") => rpWire = <<>>)

\* C28 witness: after a session.update was acknowledged the handler yielded
\* the sentinel; receive_loop ended with WebSocketClosedError, the other
\* tasks were cancelled, cleanup ran and the report sent nothing.
C28_Witness ==
    /\ emitPc = "returned"
    /\ recvPc = "closed"
    /\ sent = <<SessionUpdatedEvent>>
    /\ \A t \in OtherTasks : seOthers[t] = "cancelled"
    /\ seCleanup = 1
    /\ sePc = "closed"
    /\ rpExc = [group |-> TRUE, exceptions |-> <<WebSocketClosedError>>]
    /\ rpWire = <<>>

\* ========================================================================
\* preprocess_messages_for_llm and Chatbot.preprocessed_messages
\* ========================================================================

\* Here a message is [role, content] and a content is the sequence of its
\* pieces: the silence marker, the interruption character, a space, or
\* some other text.

\* The em-dash, written out.
INTERRUPTION_CHAR == "em-dash"
USER_SILENCE_MARKER == "..."

\* Contents of the user and assistant messages of a history.
PreContents ==
    {<<>>, <<INTERRUPTION_CHAR>>, <<"hi">>, <<USER_SILENCE_MARKER>>,
     <<USER_SILENCE_MARKER, "hi">>}

\* The histories a Chatbot can hold: a system message, then user and
\* assistant messages in turn.
PreHistoryOf(n, first, c) ==
    [j \in 1..n |->
        IF j = 1 THEN [role |-> "system", content |-> <<"p">>]
        ELSE [role |-> IF (j % 2 = 0) = (first = "user") THEN "user" ELSE "assistant",
              content |-> c[j]]]

PreHistories ==
    UNION {{PreHistoryOf(n, first, c) :
               first \in {"user", "assistant"}, c \in [2..n -> PreContents]} :
              n \in 1..MaxPreLen}

\* content.replace(INTERRUPTION_CHAR, "")
RemoveInterruption(content) ==
    SelectSeq(content, LAMBDA piece : piece # INTERRUPTION_CHAR)

IsDropped_OnlyEmpty(content) == content = <<>>

\* `message["content"].replace(INTERRUPTION_CHAR, "") == ""`
IsDropped(content) == RemoveInterruption(content) = <<>>

RECURSIVE Collapse(_, _)
\* The first loop of preprocess_messages_for_llm: output after the messages
\* of chat_history, each one copied, dropped, merged into the last message
\* of output or appended.
Collapse(chat_history, output) ==
    IF chat_history = <<>> THEN output
    ELSE LET message == Head(chat_history) IN
         IF IsDropped(message.content)
            THEN Collapse(Tail(chat_history), output)
         ELSE IF output # <<>> /\ message.role = output[Len(output)].role
            THEN Collapse(Tail(chat_history),
                          [output EXCEPT ![Len(output)].content =
                                             @ \o <<" ">> \o message.content])
         ELSE Collapse(Tail(chat_history), Append(output, message))

\* role_at(index), the index counted from 0.
role_at(output, index) ==
    IF index >= Len(output) THEN "None" ELSE output[index + 1].role

\* The dummy user message put after the system message.
WithHello(output) ==
    IF role_at(output, 0) = "system" /\ role_at(output, 1) \in {"None", "assistant"}
       THEN <<output[1]>> \o <<[role |-> "user", content |-> <<"Hello.">>]>>
               \o Tail(output)
       ELSE output

\* content.startswith(USER_SILENCE_MARKER)
StartsWithMarker(content) ==
    content # <<>> /\ content[1] = USER_SILENCE_MARKER

\* The last loop of preprocess_messages_for_llm: it runs over chat_history,
\* whose messages are not the copies held by output, and cuts the marker off.
StripMarked(chat_history) ==
    [j \in 1..Len(chat_history) |->
        IF /\ chat_history[j].role = "user"
           /\ StartsWithMarker(chat_history[j].content)
           /\ chat_history[j].content # <<USER_SILENCE_MARKER>>
           THEN [chat_history[j] EXCEPT !.content = Tail(@)]
           ELSE chat_history[j]]

\* preprocess_messages_for_llm: the list returned and chat_history as the
\* call leaves it.
preprocess_messages_for_llm(chat_history) ==
    [output |-> WithHello(Collapse(chat_history, <<>>)),
     chat_history |-> StripMarked(chat_history)]

\* Chatbot.preprocessed_messages on the current history: the list returned
\* and the history as the call leaves it.
preprocessed_messages(current_history) ==
    IF Len(current_history) > 2
       THEN preprocess_messages_for_llm(current_history)
       ELSE [output |-> preprocess_messages_for_llm(
                            <<current_history[1],
                              [role |-> "user", content |-> <<"Hello!">>]>>).output,
             chat_history |-> current_history]

PpStart ==
    /\ ppPc = "input"
    /\ ppHistory \in PreHistories
    /\ ppOutput = <<>>
    /\ ppHistoryAfter = ppHistory

\* preprocess_messages_for_llm(ppHistory)
ApplyPreprocess ==
    /\ ppPc = "input"
    /\ ppPc' = "done"
    /\ ppOutput' = preprocess_messages_for_llm(ppHistory).output
    /\ ppHistoryAfter' = preprocess_messages_for_llm(ppHistory).chat_history
    /\ UNCHANGED ppHistory
    /\ UNCHANGED notPp

\* chatbot.preprocessed_messages(), ppHistory being the current history.
ApplyPreprocessedMessages ==
    /\ ppPc = "input"
    /\ ppPc' = "wrapped"
    /\ ppOutput' = preprocessed_messages(ppHistory).output
    /\ ppHistoryAfter' = preprocessed_messages(ppHistory).chat_history
    /\ UNCHANGED ppHistory
    /\ UNCHANGED notPp

PpInit ==
    /\ PpStart /\ ReportIdle /\ EndIdle /\ ChatIdle /\ FnIdle
    /\ AdmitIdle /\ RouteIdle /\ FramesIdle /\ LlmIdle /\ ToolIdle
    /\ CmIdle

PpNext ==
    \/ ApplyPreprocess
    \/ ApplyPreprocessedMessages

SpecPreprocess == PpInit /\ [][PpNext]_vars

\* ------------------------------------------------------------------------
\* Claims on preprocess_messages_for_llm
\* ------------------------------------------------------------------------

\* C22 (as claimed): in the list returned by preprocess_messages_for_llm
\* or preprocessed_messages no user message begins with the silence marker
\* unless its content is exactly the marker.
C22_MarkerPrefixStripped ==
    ppPc \in {"done", "wrapped"} =>
        \A j \in 1..Len(ppOutput) :
            (ppOutput[j].role = "user" /\ StartsWithMarker(ppOutput[j].content)) =>
                ppOutput[j].content = <<USER_SILENCE_MARKER>>

\* C36 (as claimed): a call of preprocessed_messages leaves the history it
\* was made on unchanged, and a second call right after it returns the list
\* the first call returned.
C36_PreprocessedMessagesReadOnly ==
    ppPc = "wrapped" =>
        /\ ppHistoryAfter = ppHistory
        /\ preprocessed_messages(ppHistoryAfter).output = ppOutput

\* C23: the list returned has no two adjacent messages of the same role and
\* no message whose content is empty once the interruption character is
\* removed; if it begins with a system message its second message is a user
\* message; and that message is the dummy "Hello." exactly when the messages
\* kept from the history have an assistant message, or nothing, after the
\* system message.
C23_OutputWellFormed ==
    ppPc \in {"done", "wrapped"} =>
        /\ \A j \in 1..(Len(ppOutput) - 1) : ppOutput[j].role # ppOutput[j + 1].role
        /\ \A j \in 1..Len(ppOutput) :
              SelectSeq(ppOutput[j].content, LAMBDA piece : piece # "em-dash") # <<>>
        /\ (ppOutput # <<>> /\ ppOutput[1].role = "system") =>
              /\ Len(ppOutput) >= 2
              /\ ppOutput[2].role = "user"
        /\ ppPc = "done" =>
              LET kept == SelectSeq(ppHistory,
                                    LAMBDA message : message.content \notin {<<>>, <<"em-dash">>})
              IN  (Len(ppOutput) >= 2 /\ ppOutput[2].content = <<"Hello.">>) <=>
                      (Len(kept) = 1 \/ (Len(kept) >= 2 /\ kept[2].role = "assistant"))

\* C23 witness: the user message between two assistant messages held only
\* the interruption character: it was dropped, the assistant messages were
\* merged and the dummy user message was put before them.
C23_Witness ==
    /\ ppPc = "done"
    /\ ppHistory = <<[role |-> "system", content |-> <<"p">>],
                     [role |-> "assistant", content |-> <<"hi">>],
                     [role |-> "user", content |-> <<"em-dash">>],
                     [role |-> "assistant", content |-> <<"hi">>]>>
    /\ ppOutput = <<[role |-> "system", content |-> <<"p">>],
                    [role |-> "user", content |-> <<"Hello.">>],
                    [role |-> "assistant", content |-> <<"hi", " ", "hi">>]>>

\* ========================================================================
\* truncate_if_needed and conversation_state as functions of a history
\* ========================================================================

\* SpecHistoryFns hands a history to CharacterHistory.truncate_if_needed
\* with a cap, or, as the history of character "c1" of a Chatbot, to
\* Chatbot.conversation_state.

\* Roles of the messages after message[0]; CharacterHistory.add_message
\* takes any message.
FnRoles == {"user", "assistant", "tool"}

\* The history of n messages whose roles after message[0] are r and whose
\* last message has content k; ids are the positions.
FnHistoryOf(n, r, k) ==
    [j \in 1..n |->
        IF j = 1 THEN [role |-> "system", content |-> "p1", id |-> 1]
        ELSE [role |-> r[j], content |-> IF j = n THEN k ELSE "text", id |-> j]]

FnHistories ==
    UNION {{FnHistoryOf(n, r, k) : r \in [2..n -> FnRoles], k \in ContentKinds} :
              n \in 1..MaxHistLen}

FnStart ==
    /\ fnPc = "input"
    /\ fnHistory \in FnHistories
    /\ fnCurrent \in {"None", "c1"}
    /\ fnCap \in 1..MaxCap
    /\ fnResult = [messages |-> <<>>, removed |-> 0, state |-> ""]

\* history.truncate_if_needed(fnCap)
ApplyTruncate ==
    /\ fnPc = "input"
    /\ fnPc' = "truncated"
    /\ fnResult' = [messages |-> truncate_if_needed(fnHistory, fnCap).messages,
                    removed |-> truncate_if_needed(fnHistory, fnCap).removed,
                    state |-> ""]
    /\ UNCHANGED <<fnHistory, fnCurrent, fnCap>>
    /\ UNCHANGED notFn

\* chatbot.conversation_state(), the Chatbot holding the history as "c1".
ApplyConversationState ==
    LET histories == [c \in {"c1"} |->
                         [messages |-> fnHistory, created_at |-> 1, last_accessed |-> 1]]
    IN
    /\ fnPc = "input"
    /\ fnPc' = "state"
    /\ fnResult' = [messages |-> fnHistory, removed |-> 0,
                    state |-> conversation_state(get_current_history(histories, fnCurrent))]
    /\ UNCHANGED <<fnHistory, fnCurrent, fnCap>>
    /\ UNCHANGED notFn

FnInit ==
    /\ FnStart /\ ChatIdle /\ ReportIdle /\ EndIdle /\ PpIdle
    /\ AdmitIdle /\ RouteIdle /\ FramesIdle /\ LlmIdle /\ ToolIdle
    /\ CmIdle

FnNext ==
    \/ ApplyTruncate
    \/ ApplyConversationState

SpecHistoryFns == FnInit /\ [][FnNext]_vars

\* C17 (as claimed): truncate_if_needed(N), N >= 1, on a history of more
\* than N messages leaves exactly N messages, message[0] followed by the last
\* N-1 messages in their order, and returns the number of messages removed.
C17_TruncateKeepsHeadAndTail ==
    (fnPc = "truncated" /\ fnCap >= 1 /\ Len(fnHistory) > fnCap) =>
        /\ Len(fnResult.messages) = fnCap
        /\ fnResult.messages[1] = fnHistory[1]
        /\ \A j \in 2..fnCap :
              fnResult.messages[j] = fnHistory[Len(fnHistory) - fnCap + j]
        /\ fnResult.removed = Len(fnHistory) - Len(fnResult.messages)

\* C19: conversation_state() is waiting_for_user when no character is
\* active or the last message of the active history is a system message,
\* bot_speaking when it is an assistant message, user_speaking when it is a
\* user message with non-blank content, waiting_for_user when it is a user
\* message with blank or empty content, and an error for any other role; the
\* call leaves the history and the active pointer as they were.
C19_StateFromLastMessage ==
    /\ [](fnPc = "state" =>
            LET last == fnHistory[Len(fnHistory)] IN
            fnResult.state =
                (IF fnCurrent = "None" THEN "waiting_for_user"
                 ELSE IF last.role = "system" THEN "waiting_for_user"
                 ELSE IF last.role = "assistant" THEN "bot_speaking"
                 ELSE IF last.role = "user" /\ last.content = "text" THEN "user_speaking"
                 ELSE IF last.role = "user" THEN "waiting_for_user"
                 ELSE "RuntimeError"))
    /\ [][fnPc' = "state" =>
            /\ fnHistory' = fnHistory
            /\ fnCurrent' = fnCurrent
            /\ fnResult'.messages = fnHistory]_vars

\* C19 witness: the active history ends with a blank user message and the
\* state returned is waiting_for_user.
C19_Witness ==
    /\ fnPc = "state"
    /\ fnCurrent = "c1"
    /\ Len(fnHistory) >= 2
    /\ fnHistory[Len(fnHistory)].role = "user"
    /\ fnHistory[Len(fnHistory)].content = "blank"
    /\ fnResult.state = "waiting_for_user"

\* ========================================================================
\* CharacterManager: load_characters and reload_characters
\* ========================================================================

\* The process-wide manager made by startup_event (session_id "global") and
\* the manager of one session; the module prefix of a manager is
\* "session_<session_id>.characters".
Managers == {"global", "s1"}

\* startup_event loads the process-wide manager once.
StartupLoads == 1

\* What a .py file of a characters directory is to the loader: a character
\* file that defines everything and names its character, a file that lacks
\* one of REQUIRED_ATTRIBUTES or the PromptGenerator class, or __init__.py.
MissingKinds ==
    {"no_CHARACTER_NAME", "no_VOICE_SOURCE", "no_INSTRUCTIONS", "no_PromptGenerator"}

CharacterFile(kind, name) == [kind |-> kind, name |-> name]

FileKinds ==
    {CharacterFile("character", n) : n \in CharacterNames}
      \cup {CharacterFile(k, "") : k \in MissingKinds}
      \cup {CharacterFile("__init__", "")}

\* A directory: whether it exists, and its .py files in sorted order; the
\* file at position i has the stem i.
NoDirectory == [exists |-> FALSE, files |-> <<>>]

Directories ==
    {NoDirectory} \cup
    {[exists |-> TRUE, files |-> f] :
        f \in {g \in UNION {[1..k -> FileKinds] : k \in 0..MaxFiles} :
                 Cardinality({i \in DOMAIN g : g[i].kind = "__init__"}) <= 1}}

\* character_files: the stems of the files not in SKIP_FILES, in order.
RECURSIVE character_files_from(_, _)
character_files_from(files, i) ==
    IF i > Len(files) THEN <<>>
    ELSE IF files[i].kind = "__init__" THEN character_files_from(files, i + 1)
    ELSE <<i>> \o character_files_from(files, i + 1)

character_files(characters_dir) == character_files_from(characters_dir.files, 1)

\* sys.modules[f"{module_prefix}.{file_path.stem}"]
ModuleName(session_id, stem) == [session |-> session_id, stem |-> stem]

\* _load_single_character: the name of the VoiceSample made from the file,
\* or "None"; the AttributeError of a file that lacks an attribute or the
\* class is caught there.
load_single_character(file, stem) ==
    [done |-> TRUE,
     name |-> IF file.kind = "character" THEN file.name ELSE "None",
     source_file |-> stem]

Pending(stem) == [done |-> FALSE, name |-> "None", source_file |-> stem]

NoRoster == [characters |-> {}, loaded_count |-> 0, error_count |-> 0]

BuildRoster_LastWins(loaded, j, acc) ==
    [characters |-> {[name |-> loaded[k].name, source_file |-> loaded[k].source_file] :
                        k \in {k \in DOMAIN loaded :
                                 /\ loaded[k].name # "None"
                                 /\ \A l \in DOMAIN loaded :
                                      l > k => loaded[l].name # loaded[k].name}},
     loaded_count |-> Cardinality({k \in DOMAIN loaded : loaded[k].name # "None"}),
     error_count |-> Cardinality({k \in DOMAIN loaded : loaded[k].name = "None"})]

\* The for loop of load_characters over loaded_characters, from position j:
\* None counts as an error, so does a name already in the dictionary, and
\* any other character is entered and counted as loaded.
RECURSIVE BuildRoster(_, _, _)
BuildRoster(loaded, j, acc) ==
    IF j > Len(loaded) THEN acc
    ELSE IF loaded[j].name = "None"
       THEN BuildRoster(loaded, j + 1, [acc EXCEPT !.error_count = @ + 1])
    ELSE IF \E c \in acc.characters : c.name = loaded[j].name
       THEN BuildRoster(loaded, j + 1, [acc EXCEPT !.error_count = @ + 1])
    ELSE BuildRoster(loaded, j + 1,
             [acc EXCEPT !.characters = @ \cup {[name |-> loaded[j].name,
                                                source_file |-> loaded[j].source_file]},
                         !.loaded_count = @ + 1])

NoLoadResult ==
    [total_files |-> 0, loaded_count |-> 0, error_count |-> 0, set |-> FALSE]

cleanup_character_modules_All(session_id, modules) == {}

\* _cleanup_character_modules: the names under the manager's own prefix are
\* deleted from sys.modules.
cleanup_character_modules(session_id, modules) ==
    {x \in modules : x.session # session_id}

CmStart ==
    /\ cmPc = [m \in Managers |-> "idle"]
    /\ cmCall = [m \in Managers |-> [op |-> "none", dir |-> NoDirectory, exc |-> ""]]
    /\ characters = [m \in Managers |-> {}]
    /\ loaded_characters = [m \in Managers |-> <<>>]
    /\ sys_modules = {}
    /\ load_result = [m \in Managers |-> NoLoadResult]
    /\ cmOld = [m \in Managers |-> {}]
    /\ cmCalls = 0

\* A loader thread of another manager is writing to sys.modules.
OtherThreadsRunning(m) ==
    \E t \in Managers \ {m} :
        /\ cmPc[t] = "gathering"
        /\ \E j \in DOMAIN loaded_characters[t] : ~loaded_characters[t][j].done

\* load_characters (op "load") or reload_characters (op "reload") from its
\* entry to its first suspension.  reload_characters first deletes the
\* manager's modules and empties self.characters.  load_characters raises
\* FileNotFoundError for a missing directory; otherwise one
\* _load_single_character per character file is started and gathered.
\* Gathering nothing does not suspend, and the call returns at once.
\* The scan of sys.modules in _cleanup_character_modules runs while loader
\* threads of other managers may insert names: the dictionary iteration
\* either completes or raises RuntimeError.
CmCall(m, op, characters_dir, limit) ==
    LET isReload == op = "reload"
        modules1 == IF isReload THEN cleanup_character_modules(m, sys_modules)
                    ELSE sys_modules
        characters1 == IF isReload THEN {} ELSE characters[m]
        files == character_files(characters_dir)
        built == BuildRoster(<<>>, 1, NoRoster)
    IN
    /\ cmPc[m] # "gathering"
    /\ cmCalls < limit
    /\ cmCalls' = cmCalls + 1
    /\ cmOld' = [cmOld EXCEPT ![m] = characters[m]]
    /\ \/ /\ isReload
          /\ OtherThreadsRunning(m)
          /\ cmPc' = [cmPc EXCEPT ![m] = "raised"]
          /\ cmCall' = [cmCall EXCEPT ![m] =
                 [op |-> op, dir |-> characters_dir, exc |-> "RuntimeError"]]
          /\ UNCHANGED <<characters, loaded_characters, sys_modules, load_result>>
       \/ /\ sys_modules' = modules1
          /\ IF ~characters_dir.exists
                THEN /\ cmPc' = [cmPc EXCEPT ![m] = "raised"]
                     /\ cmCall' = [cmCall EXCEPT ![m] =
                            [op |-> op, dir |-> characters_dir,
                             exc |-> "FileNotFoundError"]]
                     /\ characters' = [characters EXCEPT ![m] = characters1]
                     /\ UNCHANGED <<loaded_characters, load_result>>
             ELSE IF files = <<>>
                THEN /\ cmPc' = [cmPc EXCEPT ![m] = "idle"]
                     /\ cmCall' = [cmCall EXCEPT ![m] =
                            [op |-> op, dir |-> characters_dir, exc |-> ""]]
                     /\ characters' = [characters EXCEPT ![m] = built.characters]
                     /\ load_result' = [load_result EXCEPT ![m] =
                            [total_files |-> 0, loaded_count |-> built.loaded_count,
                             error_count |-> built.error_count, set |-> TRUE]]
                     /\ UNCHANGED loaded_characters
             ELSE /\ cmPc' = [cmPc EXCEPT ![m] = "gathering"]
                  /\ cmCall' = [cmCall EXCEPT ![m] =
                         [op |-> op, dir |-> characters_dir, exc |-> ""]]
                  /\ characters' = [characters EXCEPT ![m] = characters1]
                  /\ loaded_characters' = [loaded_characters EXCEPT ![m] =
                         [j \in 1..Len(files) |-> Pending(files[j])]]
                  /\ UNCHANGED load_result
    /\ UNCHANGED notCm

\* One _load_single_character ends: its thread registered the module under
\* the manager's prefix before executing the file, and the coroutine
\* returns the character or None.
CmThreadDone(m, j) ==
    /\ cmPc[m] = "gathering"
    /\ j \in DOMAIN loaded_characters[m]
    /\ ~loaded_characters[m][j].done
    /\ LET stem == loaded_characters[m][j].source_file IN
       /\ sys_modules' = sys_modules \cup {ModuleName(m, stem)}
       /\ loaded_characters' = [loaded_characters EXCEPT ![m][j] =
              load_single_character(cmCall[m].dir.files[stem], stem)]
    /\ UNCHANGED <<cmPc, cmCall, characters, load_result, cmOld, cmCalls>>
    /\ UNCHANGED notCm

\* asyncio.gather returns: the dictionary is built, self.characters and
\* self._load_result are assigned and the result is returned.
CmGatherDone(m) ==
    /\ cmPc[m] = "gathering"
    /\ \A j \in DOMAIN loaded_characters[m] : loaded_characters[m][j].done
    /\ LET built == BuildRoster(loaded_characters[m], 1, NoRoster) IN
       /\ characters' = [characters EXCEPT ![m] = built.characters]
       /\ load_result' = [load_result EXCEPT ![m] =
              [total_files |-> Len(loaded_characters[m]),
               loaded_count |-> built.loaded_count,
               error_count |-> built.error_count, set |-> TRUE]]
    /\ cmPc' = [cmPc EXCEPT ![m] = "idle"]
    /\ loaded_characters' = [loaded_characters EXCEPT ![m] = <<>>]
    /\ UNCHANGED <<cmCall, sys_modules, cmOld, cmCalls>>
    /\ UNCHANGED notCm

CmInit ==
    /\ CmStart /\ PpIdle /\ ReportIdle /\ EndIdle /\ ChatIdle /\ FnIdle
    /\ AdmitIdle /\ RouteIdle /\ FramesIdle /\ LlmIdle /\ ToolIdle

\* The load of the process-wide manager at startup, from any directory.
LoadNext ==
    \/ \E d \in Directories : CmCall("global", "load", d, StartupLoads)
    \/ \E j \in 1..MaxFiles : CmThreadDone("global", j)
    \/ CmGatherDone("global")

SpecLoad == CmInit /\ [][LoadNext]_vars

\* Directories the managers are loaded and reloaded from side by side.
DirOne ==
    [exists |-> TRUE, files |-> <<CharacterFile("character", "c1"),
                                  CharacterFile("character", "c2")>>]
DirTwo ==
    [exists |-> TRUE, files |-> <<CharacterFile("character", "c2")>>]
ReloadDirs == {NoDirectory, DirOne, DirTwo}

CmStepOf(m) ==
    \/ \E op \in {"load", "reload"}, d \in ReloadDirs : CmCall(m, op, d, MaxReloads)
    \/ \E j \in 1..MaxFiles : CmThreadDone(m, j)
    \/ CmGatherDone(m)

ReloadNext ==
    \/ \E m \in Managers, op \in {"load", "reload"}, d \in ReloadDirs :
          CmCall(m, op, d, MaxReloads)
    \/ \E m \in Managers, j \in 1..MaxFiles : CmThreadDone(m, j)
    \/ \E m \in Managers : CmGatherDone(m)

SpecReload == CmInit /\ [][ReloadNext]_vars

\* ------------------------------------------------------------------------
\* Claims on the character registry
\* ------------------------------------------------------------------------

\* What a load of the directory is to produce: each character file whose
\* name no earlier file bears, and the files that count as errors.
IsCharacterAt(d, i) == d.files[i].kind = "character"

RepeatsEarlier(d, i) ==
    /\ IsCharacterAt(d, i)
    /\ \E k \in 1..(i - 1) : IsCharacterAt(d, k) /\ d.files[k].name = d.files[i].name

ExpectedRoster(d) ==
    {[name |-> d.files[i].name, source_file |-> i] :
        i \in {i \in DOMAIN d.files : IsCharacterAt(d, i) /\ ~RepeatsEarlier(d, i)}}

ErrorFiles(d) ==
    {i \in DOMAIN d.files : d.files[i].kind \in MissingKinds \/ RepeatsEarlier(d, i)}

\* C32 (as claimed): while reload_characters is suspended, self.characters
\* is the complete old roster or the complete new one.
C32_ReloadAtomic ==
    \A m \in Managers :
        (cmPc[m] = "gathering" /\ cmCall[m].op = "reload") =>
            characters[m] \in {cmOld[m], ExpectedRoster(cmCall[m].dir)}

\* C33: a step of load_characters or reload_characters of one manager leaves
\* the characters map of every other manager, and the modules registered
\* under every other manager's prefix, as they were, whatever the other
\* managers are in the middle of.
C33_OtherSessionsUntouched ==
    [][\A m \in Managers :
          CmStepOf(m) =>
              \A t \in Managers \ {m} :
                  /\ characters'[t] = characters[t]
                  /\ {x \in sys_modules' : x.session = t}
                       = {x \in sys_modules : x.session = t}]_vars

\* C33 witness: the session's manager is in the middle of a reload that
\* removed its modules and emptied its roster, while the process-wide
\* manager, itself in the middle of a reload, holds modules of its own.
C33_Witness ==
    /\ cmPc["s1"] = "gathering"
    /\ cmCall["s1"].op = "reload"
    /\ cmOld["s1"] # {}
    /\ characters["s1"] = {}
    /\ cmPc["global"] = "gathering"
    /\ cmCall["global"].op = "reload"
    /\ \E x \in sys_modules : x.session = "global"
    /\ \E x \in sys_modules : x.session = "s1"

\* C34: a load_characters of an existing directory returns, with
\* loaded_count + error_count = total_files, loaded_count the size of the
\* roster, total_files the number of files other than __init__.py; the
\* errors are exactly the files lacking an attribute or the class and the
\* files repeating the name of an earlier file, and the roster is made of
\* the other files.
C34_LoadAccountsForEveryFile ==
    \A m \in Managers :
        (cmCall[m].op = "load" /\ cmCall[m].dir.exists /\ cmPc[m] # "gathering") =>
            /\ cmPc[m] = "idle"
            /\ load_result[m].set
            /\ load_result[m].loaded_count + load_result[m].error_count
                 = load_result[m].total_files
            /\ load_result[m].loaded_count = Cardinality(characters[m])
            /\ load_result[m].total_files
                 = Len(character_files(cmCall[m].dir))
            /\ load_result[m].error_count = Cardinality(ErrorFiles(cmCall[m].dir))
            /\ characters[m] = ExpectedRoster(cmCall[m].dir)

\* C34 witness: of three files the second repeats the name of the first and
\* the third lacks INSTRUCTIONS: one character loaded, two errors.
C34_Witness ==
    /\ cmPc["global"] = "idle"
    /\ cmCall["global"].op = "load"
    /\ cmCall["global"].dir.files =
         <<CharacterFile("character", "c1"),
           CharacterFile("character", "c1"),
           CharacterFile("no_INSTRUCTIONS", "")>>
    /\ load_result["global"] =
         [total_files |-> 3, loaded_count |-> 1, error_count |-> 2, set |-> TRUE]
    /\ characters["global"] = {[name |-> "c1", source_file |-> 1]}

\* C38 (as claimed): after a reload_characters that raised
\* FileNotFoundError, self.characters is what it was when the call was made.
C38_FailedReloadKeepsRoster ==
    \A m \in Managers :
        (cmPc[m] = "raised" /\ cmCall[m].op = "reload"
           /\ cmCall[m].exc = "FileNotFoundError") =>
            characters[m] = cmOld[m]

====
